---- MODULE Spec2Model ----
(***************************************************************************)
(* Model of the workflow engine (src/src/workflow/mod.rs): the dependency  *)
(* sort of a workflow's steps, the execution of one step with its          *)
(* condition gate and retry loop, and the run of a whole workflow with its *)
(* execution record; and of the task orchestrator                          *)
(* (src/src/orchestrator/mod.rs): the registry of tasks, the semaphore     *)
(* that limits the calls in progress, cancel_task and the cleanup sweep.   *)
(*                                                                         *)
(* Option<T> is modelled as a sequence: None is <<>>, Some(v) is <<v>>.    *)
(* A Rust String that the code inspects (a condition, a variable name or   *)
(* value) is a sequence of one-character strings; a step id, which the     *)
(* code only compares for equality, is a TLA+ string.  A reference to a    *)
(* step (&WorkflowStep into the slice workflow.steps) is its index.        *)
(***************************************************************************)
EXTENDS Integers, Sequences, FiniteSets, TLC

VARIABLES
    steps,          \* workflow.steps: Vec<WorkflowStep>
    variables,      \* workflow.variables: HashMap<String, String>
    retry_attempts, \* config.retry_attempts
    timeout_seconds,\* config.timeout_seconds
    command_secs,   \* the run times (seconds) a command of this run can take
    pc,             \* position of the engine's caller / engine
    sort_result,    \* value returned by sort_steps_by_dependencies (scheduler runs)
    execution,      \* Option of the local `execution` of execute_workflow
    sorted_steps,   \* local `sorted_steps` of execute_workflow_steps (indices)
    idx,            \* position of the `for step in sorted_steps` loop
    step_execution, \* Option of the local `step_execution` of execute_step
    max_retries,    \* local `max_retries` of execute_step
    attempt,        \* loop variable `attempt` of execute_step
    last_error,     \* local `last_error` of execute_step
    invoked,        \* log of command invocations, in order:
                    \*   [step, outcome, secs, timeout, waited]
    sleeps,         \* log of backoff sleeps: [step, secs]
    records,        \* the files of <workflow_dir>/executions, in the order of
                    \*   their creation: [execution, whole]
    save_result,    \* Option of the value save_execution_record returned
    result,         \* Option of the value returned by execute_workflow
    \* the orchestrator (src/src/orchestrator/mod.rs)
    max_concurrent_workflows,   \* config.workflow.max_concurrent_workflows
    active_tasks,   \* the registry: DashMap<Uuid, TaskInfo>
    permits,        \* available permits of `semaphore`
    waiters,        \* the semaphore's queue of pending acquire() calls
    tasks,          \* the calls of process_upload / execute_workflow, by task
                    \*   id: [pc, task_type, result]
    now,            \* the clock read by chrono::Utc::now(), in minutes
    cleanup,        \* the calls of cleanup_completed_tasks, by call: Option
                    \*   of the position and locals of a running one, [phase,
                    \*   passed, to_remove, removed_count]
    reported,       \* Option of the count logged by the latest step of a
                    \*   cleanup, None when that step logged nothing
    listing,        \* Option of the position and the Vec of a call of
                    \*   list_active_tasks: [passed, copies]
    iter_order,     \* the ids in the order in which DashMap::iter comes to
                    \*   them: by the shards of the map, an id's shard fixed
                    \*   by its hash under the hasher the map was built with
    twice           \* a caller that runs cleanup_completed_tasks twice in
                    \*   succession: [at, called_at, left], its position, the
                    \*   instant of its first call and the registry as its
                    \*   first run left it

engineVars == << steps, variables, retry_attempts, timeout_seconds, command_secs,
                 pc, sort_result, execution, sorted_steps, idx, step_execution,
                 max_retries, attempt, last_error, invoked, sleeps, records,
                 save_result, result >>

orchVars == << max_concurrent_workflows, active_tasks, permits, waiters, tasks,
               now, cleanup, reported, listing, iter_order, twice >>

vars == << engineVars, orchVars >>

None == << >>
Some(v) == << v >>

(***************************************************************************)
(* Bounds of the inputs.                                                   *)
(***************************************************************************)
MaxSteps == 3       \* steps per workflow
MaxDeps == 2        \* entries of one step's depends_on
MaxRetry == 2       \* largest retry_count / retry_attempts drawn
MaxSecs == 2        \* largest config.timeout_seconds drawn

StepIds == {"a", "b", "c"}

\* the sequences over S of length at most n
SeqsUpTo(S, n) == UNION { [1..k -> S] : k \in 0..n }

Distinct(seq) == \A i, j \in 1..Len(seq) : seq[i] = seq[j] => i = j

\* depends_on: a set of dependency ids, listed in any order
DepLists == { d \in SeqsUpTo(StepIds, MaxDeps) : Distinct(d) }

(***************************************************************************)
(* WorkflowStep (workflow/mod.rs 31-43); the fields the engine reads for   *)
(* ordering, gating and retrying, and the name of the output variable.     *)
(***************************************************************************)
WorkflowStep(id, deps, retry, cond, timeout, output) ==
    [ id |-> id, depends_on |-> deps, retry_count |-> retry, condition |-> cond,
      timeout |-> timeout, output |-> output ]

(***************************************************************************)
(* Step Scheduler: sort_steps_by_dependencies / visit_step.                *)
(* The traversal state is the three mutable locals (visited, visiting,     *)
(* sorted) plus the error that `?` propagates.                             *)
(***************************************************************************)
CircularDependency(id) == << "Circular dependency detected for step", id >>
DependencyNotFound(id) == << "Dependency step not found", id >>

\* all_steps.iter().find(|s| &s.id == dep_id): index of the first match, 0 if none
FindStep(all_steps, dep_id) ==
    IF \E i \in 1..Len(all_steps) : all_steps[i].id = dep_id
    THEN CHOOSE i \in 1..Len(all_steps) :
            /\ all_steps[i].id = dep_id
            /\ \A j \in 1..(i - 1) : all_steps[j].id # dep_id
    ELSE 0

RECURSIVE visit_step(_, _, _)
RECURSIVE visit_deps(_, _, _, _)

\* for dep_id in &step.depends_on { find ... ?; visit_step(...)?; }
visit_deps(deps, k, all_steps, st) ==
    IF k > Len(deps) THEN st
    ELSE LET j == FindStep(all_steps, deps[k])
         IN  IF j = 0
             THEN [st EXCEPT !.err = Some(DependencyNotFound(deps[k]))]
             ELSE LET st1 == visit_step(j, all_steps, st)
                  IN  IF st1.err # None THEN st1
                      ELSE visit_deps(deps, k + 1, all_steps, st1)

\* visit_step pushing the step before its dependencies are visited
visit_step_push_first(i, all_steps, st) ==
    LET step == all_steps[i]
    IN  IF step.id \in st.visiting
        THEN [st EXCEPT !.err = Some(CircularDependency(step.id))]
        ELSE IF step.id \in st.visited
        THEN st
        ELSE LET st1 == [st EXCEPT !.visiting = @ \cup {step.id},
                                   !.sorted = Append(@, i)]
                 st2 == visit_deps(step.depends_on, 1, all_steps, st1)
             IN  IF st2.err # None THEN st2
                 ELSE [st2 EXCEPT !.visiting = @ \ {step.id},
                                  !.visited = @ \cup {step.id}]

\* visit_step marking the step visited on entry, with no in-progress mark
visit_step_no_visiting(i, all_steps, st) ==
    LET step == all_steps[i]
    IN  IF step.id \in st.visited
        THEN st
        ELSE LET st1 == [st EXCEPT !.visited = @ \cup {step.id}]
                 st2 == visit_deps(step.depends_on, 1, all_steps, st1)
             IN  IF st2.err # None THEN st2
                 ELSE [st2 EXCEPT !.sorted = Append(@, i)]

visit_step(i, all_steps, st) ==
    LET step == all_steps[i]
    IN  IF step.id \in st.visiting
        THEN [st EXCEPT !.err = Some(CircularDependency(step.id))]
        ELSE IF step.id \in st.visited
        THEN st
        ELSE LET st1 == [st EXCEPT !.visiting = @ \cup {step.id}]
                 st2 == visit_deps(step.depends_on, 1, all_steps, st1)
             IN  IF st2.err # None THEN st2
                 ELSE [st2 EXCEPT !.visiting = @ \ {step.id},
                                  !.visited = @ \cup {step.id},
                                  !.sorted = Append(@, i)]

RECURSIVE sort_loop_last_first(_, _, _)
\* the steps scanned from the last declared to the first
sort_loop_last_first(i, all_steps, st) ==
    IF i > Len(all_steps) THEN st
    ELSE LET j == Len(all_steps) - i + 1
         IN  IF all_steps[j].id \in st.visited
             THEN sort_loop_last_first(i + 1, all_steps, st)
             ELSE LET st1 == visit_step(j, all_steps, st)
                  IN  IF st1.err # None THEN st1
                      ELSE sort_loop_last_first(i + 1, all_steps, st1)

RECURSIVE sort_loop(_, _, _)
\* for step in steps { if !visited.contains(&step.id) { visit_step(...)?; } }
sort_loop(i, all_steps, st) ==
    IF i > Len(all_steps) THEN st
    ELSE IF all_steps[i].id \in st.visited
    THEN sort_loop(i + 1, all_steps, st)
    ELSE LET st1 == visit_step(i, all_steps, st)
         IN  IF st1.err # None THEN st1
             ELSE sort_loop(i + 1, all_steps, st1)

\* Result<Vec<&WorkflowStep>>: [ok |-> TRUE, sorted |-> indices] or [ok |-> FALSE, err |-> e]
sort_steps_by_dependencies(all_steps) ==
    LET st == sort_loop(1, all_steps,
                        [visited |-> {}, visiting |-> {}, sorted |-> << >>, err |-> None])
    IN  IF st.err # None
        THEN [ok |-> FALSE, err |-> st.err[1], sorted |-> << >>]
        ELSE [ok |-> TRUE, err |-> << >>, sorted |-> st.sorted]

(***************************************************************************)
(* Strings the code inspects: str::contains, str::replace, to_lowercase.   *)
(***************************************************************************)
Contains(s, c) == \E i \in 1..Len(s) : s[i] = c

\* char-wise to_lowercase over the letters the inputs use
LowerChar(c) ==
    CASE c = "T" -> "t"
      [] c = "R" -> "r"
      [] c = "U" -> "u"
      [] c = "E" -> "e"
      [] OTHER -> c

to_lowercase(s) == [i \in 1..Len(s) |-> LowerChar(s[i])]

RECURSIVE ReplaceFrom(_, _, _, _)
\* str::replace(from, to): every non-overlapping match, scanning left to right
ReplaceFrom(s, i, from, to) ==
    IF i > Len(s) THEN << >>
    ELSE IF i + Len(from) - 1 <= Len(s) /\ SubSeq(s, i, i + Len(from) - 1) = from
    THEN to \o ReplaceFrom(s, i + Len(from), from, to)
    ELSE << s[i] >> \o ReplaceFrom(s, i + 1, from, to)

replace(s, from, to) == ReplaceFrom(s, 1, from, to)

\* the orders in which `for (key, value) in &execution.variables` may yield the keys
IterationOrders(K) ==
    { o \in [1..Cardinality(K) -> K] : \A i, j \in 1..Cardinality(K) : o[i] = o[j] => i = j }

RECURSIVE substitute(_, _, _, _)
\* the loop of evaluate_condition, keys taken in the order `order`
substitute(evaluated_condition, vs, order, k) ==
    IF k > Len(order) THEN evaluated_condition
    ELSE substitute(replace(evaluated_condition, << "$" >> \o order[k], vs[order[k]]),
                    vs, order, k + 1)

\* the comparison made without to_lowercase
evaluate_condition_case_sensitive(condition, vs, order) ==
    IF Contains(condition, "$")
    THEN substitute(condition, vs, order, 1) = << "t", "r", "u", "e" >>
    ELSE TRUE

evaluate_condition(condition, vs, order) ==
    IF Contains(condition, "$")
    THEN to_lowercase(substitute(condition, vs, order, 1)) = << "t", "r", "u", "e" >>
    ELSE TRUE

(***************************************************************************)
(* Results, records and the outcomes of one command invocation.            *)
(***************************************************************************)
Ok(v) == [ok |-> TRUE, val |-> v]
Err(e) == [ok |-> FALSE, val |-> e]

\* a file executions/<id>.json: the record of `e`, whole or cut off
RecordFile(e, whole) == [ execution |-> e, whole |-> whole ]

Now == "now"    \* a value of Utc::now()

\* Result<String> of run_command: stdout on a zero exit; the error of a non-zero
\* exit, or of a spawn failure (cmd.output()?)
CommandExits ==
    { Ok("stdout"),
      Err("Command failed: stderr"),
      Err("No such file or directory") }

\* what one child process does: how long it runs and how it ends
CommandRuns(secs) == [ secs : secs, exit : CommandExits ]

\* execute_step_command.  run_command has no await: std::process::Command's
\* output() blocks inside the first poll of the future, so when
\* tokio::time::timeout polls it the value is ready and is returned as it is;
\* the deadline is never looked at.  `waited` is the time the call took.
execute_step_command(step, default, run) ==
    LET timeout == IF step.timeout = None THEN default ELSE step.timeout[1]
    IN  [ timeout |-> timeout, waited |-> run.secs, outcome |-> run.exit ]

\* run_command, lines 324-327: the variables the command's environment gets
run_command_env(e) == e.variables

NewExecution(vs) ==
    [ status |-> "Pending", completed_at |-> None, steps_executed |-> << >>,
      variables |-> vs, error_message |-> None ]

NewStepExecution(id) ==
    [ step_id |-> id, status |-> "Pending", completed_at |-> None,
      output |-> None, error_message |-> None, retry_count |-> 0 ]

StepFailedError(se) == << "Step failed", se.step_id, se.error_message >>

\* the scan matching a Skipped step as well as a Failed one
FindFailed_or_skipped(ses) ==
    IF \E i \in 1..Len(ses) : ses[i].status \in { "Failed", "Skipped" }
    THEN CHOOSE i \in 1..Len(ses) :
            /\ ses[i].status \in { "Failed", "Skipped" }
            /\ \A j \in 1..(i - 1) : ses[j].status \notin { "Failed", "Skipped" }
    ELSE 0

\* execution.steps_executed.iter().find(|s| matches!(s.status, Failed)): index or 0
FindFailed(ses) ==
    IF \E i \in 1..Len(ses) : ses[i].status = "Failed"
    THEN CHOOSE i \in 1..Len(ses) :
            /\ ses[i].status = "Failed"
            /\ \A j \in 1..(i - 1) : ses[j].status # "Failed"
    ELSE 0

Exec == execution[1]
StepExec == step_execution[1]
\* the loop walking workflow.steps in declaration order
CurrentStep_declared == steps[idx]

CurrentStep == steps[sorted_steps[idx]]     \* `step` of `for step in sorted_steps`

(***************************************************************************)
(* execute_workflow: load, construct the execution, resolve the order.     *)
(***************************************************************************)
\* load_workflow fails: the error leaves execute_workflow through `?`
LoadError ==
    /\ pc = "start"
    /\ result' = Some(Err(<< "Workflow file does not exist" >>))
    /\ pc' = "done"
    /\ UNCHANGED << save_result, steps, variables, retry_attempts,
                    timeout_seconds,
                    command_secs, sort_result, execution,
                    sorted_steps, idx, step_execution, max_retries, attempt,
                    last_error, invoked, sleeps, records >>
    /\ UNCHANGED orchVars

\* the scheduler's error caught and the execution saved as Failed before returning
SortError_saves ==
    /\ pc = "start"
    /\ LET sorted == sort_steps_by_dependencies(steps)
           failed == [NewExecution(variables) EXCEPT !.status = "Failed"]
       IN  /\ ~sorted.ok
           /\ execution' = Some(failed)
           /\ records' = Append(records, RecordFile(failed, TRUE))
           /\ result' = Some(Err(sorted.err))
    /\ pc' = "done"
    /\ UNCHANGED << save_result, steps, variables, retry_attempts,
                    timeout_seconds,
                    command_secs, sort_result,
                    sorted_steps, idx, step_execution, max_retries, attempt,
                    last_error, invoked, sleeps >>
    /\ UNCHANGED orchVars

\* the scheduler fails: execute_workflow_steps and execute_workflow return the
\* error through `?`; the execution (status Running) is dropped unsaved
SortError ==
    /\ pc = "start"
    /\ LET sorted == sort_steps_by_dependencies(steps)
       IN  /\ ~sorted.ok
           /\ execution' = Some([NewExecution(variables) EXCEPT !.status = "Running"])
           /\ result' = Some(Err(sorted.err))
    /\ pc' = "done"
    /\ UNCHANGED << save_result, steps, variables, retry_attempts,
                    timeout_seconds,
                    command_secs, sort_result,
                    sorted_steps, idx, step_execution, max_retries, attempt,
                    last_error, invoked, sleeps, records >>
    /\ UNCHANGED orchVars

\* the scheduler succeeds: the loop over sorted_steps starts
StartSteps ==
    /\ pc = "start"
    /\ LET sorted == sort_steps_by_dependencies(steps)
       IN  /\ sorted.ok
           /\ execution' = Some([NewExecution(variables) EXCEPT !.status = "Running"])
           /\ sorted_steps' = sorted.sorted
    /\ idx' = 1
    /\ pc' = "steps"
    /\ UNCHANGED << save_result, steps, variables, retry_attempts,
                    timeout_seconds,
                    command_secs, sort_result,
                    step_execution, max_retries, attempt,
                    last_error, invoked, sleeps, records, result >>
    /\ UNCHANGED orchVars

(***************************************************************************)
(* execute_workflow_steps, lines 174-185: push the StepExecution that      *)
(* execute_step returned, then the fail-fast scan.                         *)
(***************************************************************************)
\* the loop going on to the next step after a failed one
StepReturned_no_fail_fast(se) ==
    /\ step_execution' = Some(se)
    /\ execution' = Some([Exec EXCEPT !.steps_executed = Append(@, se)])
    /\ result' = result
    /\ pc' = "steps"
    /\ idx' = idx + 1

\* the fail-fast exit leaving the execution's own status and error untouched
StepReturned_no_error_copy(se) ==
    LET pushed == [Exec EXCEPT !.steps_executed = Append(@, se)]
        f == FindFailed(pushed.steps_executed)
    IN  /\ step_execution' = Some(se)
        /\ execution' = Some(pushed)
        /\ IF f # 0
           THEN /\ result' = Some(Err(StepFailedError(pushed.steps_executed[f])))
                /\ pc' = "done"
                /\ idx' = idx
           ELSE /\ result' = result
                /\ pc' = "steps"
                /\ idx' = idx + 1

\* the captured output written into the run's variables under the name the
\* step gives its output
StepReturned_writes_output(se) ==
    LET name == CurrentStep.output
        vs == IF name # None /\ se.output # None
              THEN (name[1] :> << se.output[1] >>) @@ Exec.variables
              ELSE Exec.variables
        pushed == [Exec EXCEPT !.steps_executed = Append(@, se), !.variables = vs]
        f == FindFailed(pushed.steps_executed)
    IN  /\ step_execution' = Some(se)
        /\ IF f # 0
           THEN /\ execution' = Some([pushed EXCEPT
                        !.status = "Failed",
                        !.error_message = pushed.steps_executed[f].error_message])
                /\ result' = Some(Err(StepFailedError(pushed.steps_executed[f])))
                /\ pc' = "done"
                /\ idx' = idx
           ELSE /\ execution' = Some(pushed)
                /\ result' = result
                /\ pc' = "steps"
                /\ idx' = idx + 1

StepReturned(se) ==
    LET pushed == [Exec EXCEPT !.steps_executed = Append(@, se)]
        f == FindFailed(pushed.steps_executed)
    IN  /\ step_execution' = Some(se)
        /\ IF f # 0
           THEN /\ execution' = Some([pushed EXCEPT
                        !.status = "Failed",
                        !.error_message = pushed.steps_executed[f].error_message])
                /\ result' = Some(Err(StepFailedError(pushed.steps_executed[f])))
                /\ pc' = "done"
                /\ idx' = idx
           ELSE /\ execution' = Some(pushed)
                /\ result' = result
                /\ pc' = "steps"
                /\ idx' = idx + 1

(***************************************************************************)
(* execute_step, lines 240-265: the condition gate.                        *)
(***************************************************************************)
\* the workflow default taken even when the step overrides it
EffectiveMaxRetries_default_only(step, default) == default

\* step.retry_count.unwrap_or(self.config.retry_attempts)
EffectiveMaxRetries(step, default) ==
    IF step.retry_count = None THEN default ELSE step.retry_count[1]

BeginStep ==
    /\ pc = "steps"
    /\ idx <= Len(sorted_steps)
    /\ \E order \in IterationOrders(DOMAIN Exec.variables) :
         LET step == CurrentStep
             se == NewStepExecution(step.id)
             pass == IF step.condition = None THEN TRUE
                     ELSE evaluate_condition(step.condition[1], Exec.variables, order)
         IN  IF ~pass
             THEN /\ StepReturned([se EXCEPT !.status = "Skipped",
                                             !.completed_at = Some(Now)])
                  /\ UNCHANGED << max_retries, attempt, last_error >>
             ELSE /\ step_execution' = Some([se EXCEPT !.status = "Running"])
                  /\ max_retries' = EffectiveMaxRetries(step, retry_attempts)
                  /\ last_error' = None
                  /\ attempt' = 0
                  /\ pc' = "attempt"
                  /\ UNCHANGED << execution, idx, result >>
    /\ UNCHANGED << save_result, steps, variables, retry_attempts,
                    timeout_seconds,
                    command_secs, sort_result, sorted_steps,
                    invoked, sleeps, records >>
    /\ UNCHANGED orchVars

(***************************************************************************)
(* execute_step, lines 267-297: one iteration of the retry loop, and the   *)
(* exit of the loop after the last failed attempt.                         *)
(***************************************************************************)
\* the exponent taken from the attempt that follows the wait
Backoff_of_next_attempt(a) == 2 ^ (a + 1)

Backoff(a) == 2 ^ a     \* Duration::from_secs(2_u64.pow(attempt))

\* retry_count counting the attempts made rather than the retries
WithRetryCount_attempts(se, a) == [se EXCEPT !.retry_count = a + 1]

\* if attempt > 0 { step_execution.retry_count = attempt; }
WithRetryCount(se, a) ==
    IF a > 0 THEN [se EXCEPT !.retry_count = a] ELSE se

\* the range taken exclusive: `for attempt in 0..max_retries`
HasNextAttempt_exclusive(a, max) == a + 1 < max

\* `for attempt in 0..=max_retries` has a further iteration after `a`
\* (the same test guards the sleep: `if attempt < max_retries`)
HasNextAttempt(a, max) == a < max

\* the Ok(output) arm of the match
StepCompleted(se, output) ==
    [se EXCEPT !.output = Some(output), !.status = "Completed",
               !.completed_at = Some(Now)]

\* the Err(e) arm of the match
AttemptFailed(se, e) == [se EXCEPT !.error_message = Some(e)]

\* after the loop: every attempt failed
StepFailed(se) == [se EXCEPT !.status = "Failed", !.completed_at = Some(Now)]

Attempt ==
    /\ pc = "attempt"
    /\ \E run \in CommandRuns(command_secs) :
         LET step == CurrentStep
             se0 == WithRetryCount(StepExec, attempt)
             call == execute_step_command(step, timeout_seconds, run)
             outcome == call.outcome
         IN  /\ invoked' = Append(invoked,
                    [ step |-> step.id, outcome |-> outcome, secs |-> run.secs,
                      timeout |-> call.timeout, waited |-> call.waited,
                      env |-> run_command_env(Exec) ])
             /\ IF outcome.ok
                THEN /\ StepReturned(StepCompleted(se0, outcome.val))
                     /\ UNCHANGED << attempt, last_error, sleeps >>
                ELSE LET se1 == AttemptFailed(se0, outcome.val)
                     IN  /\ last_error' = Some(outcome.val)
                         /\ IF HasNextAttempt(attempt, max_retries)
                            THEN /\ sleeps' = Append(sleeps,
                                        [step |-> step.id, secs |-> Backoff(attempt)])
                                 /\ attempt' = attempt + 1
                                 /\ step_execution' = Some(se1)
                                 /\ UNCHANGED << execution, idx, result, pc >>
                            ELSE /\ StepReturned(StepFailed(se1))
                                 /\ UNCHANGED << attempt, sleeps >>
    /\ UNCHANGED << save_result, steps, variables, retry_attempts,
                    timeout_seconds,
                    command_secs, sort_result, sorted_steps,
                    max_retries, records >>
    /\ UNCHANGED orchVars

(***************************************************************************)
(* execute_workflow, lines 138-139: every step returned without a failure; *)
(* the execution is marked Completed.                                      *)
(***************************************************************************)
MarkCompleted ==
    /\ pc = "steps"
    /\ idx > Len(sorted_steps)
    /\ execution' = Some([Exec EXCEPT !.completed_at = Some(Now),
                                      !.status = "Completed"])
    /\ pc' = "save"
    /\ UNCHANGED << steps, variables, retry_attempts, timeout_seconds,
                    command_secs, sort_result, sorted_steps,
                    idx, step_execution, max_retries, attempt, last_error,
                    invoked, sleeps, records, save_result, result >>
    /\ UNCHANGED orchVars

(***************************************************************************)
(* save_execution_record, lines 357-367: create_dir_all, to_string_pretty  *)
(* and fs::write each end in `?`, and fs::write is create-and-truncate     *)
(* followed by write_all.  The file system decides the outcome of each     *)
(* part: an I/O error before the file is created (create_dir_all, or the   *)
(* open of fs::write) leaves no file; once the file is created it holds a  *)
(* cut-off record until write_all has written the whole of it, and for     *)
(* good when write_all fails part way.                                     *)
(***************************************************************************)
CreateOutcomes == { Ok("()"), Err(<< "Not a directory (os error 20)" >>) }
WriteOutcomes == { Ok("()"), Err(<< "File too large (os error 27)" >>) }

\* lines 359-363, up to the creation of the file: the file exists, with
\* nothing of the record in it yet, or the error is returned
save_execution_record_create ==
    /\ pc = "save"
    /\ \E io \in CreateOutcomes :
         IF io.ok
         THEN /\ records' = Append(records, RecordFile(Exec, FALSE))
              /\ pc' = "write"
              /\ UNCHANGED save_result
         ELSE /\ save_result' = Some(io)
              /\ pc' = "saved"
              /\ UNCHANGED records
    /\ UNCHANGED << steps, variables, retry_attempts, timeout_seconds,
                    command_secs, sort_result, sorted_steps,
                    idx, step_execution, max_retries, attempt, last_error,
                    invoked, sleeps, execution, result >>
    /\ UNCHANGED orchVars

\* lines 363-366, the write_all of fs::write: the file holds the whole record
\* and Ok(()) is returned, or the write stops part way and its error is
\* returned
save_execution_record_write ==
    /\ pc = "write"
    /\ \E io \in WriteOutcomes :
         /\ records' = IF io.ok
                       THEN [records EXCEPT ![Len(records)].whole = TRUE]
                       ELSE records
         /\ save_result' = Some(io)
    /\ pc' = "saved"
    /\ UNCHANGED << steps, variables, retry_attempts, timeout_seconds,
                    command_secs, sort_result, sorted_steps,
                    idx, step_execution, max_retries, attempt, last_error,
                    invoked, sleeps, execution, result >>
    /\ UNCHANGED orchVars

\* get_execution, lines 390-401, for the run of this engine: Ok(None) when
\* there is no file, the execution when the file parses, the error of
\* serde_json::from_str when it holds a cut-off record
get_execution ==
    IF records = << >>
    THEN Ok(None)
    ELSE IF records[Len(records)].whole
         THEN Ok(Some(records[Len(records)].execution))
         ELSE Err(<< "EOF while parsing" >>)

\* a save whose error is dropped instead of leaving through `?`
ReturnExecution_ignores_save_error ==
    /\ pc = "saved"
    /\ result' = Some(Ok(Exec))
    /\ pc' = "done"
    /\ UNCHANGED << steps, variables, retry_attempts, timeout_seconds,
                    command_secs, sort_result, sorted_steps,
                    idx, step_execution, max_retries, attempt, last_error,
                    invoked, sleeps, execution, records, save_result >>
    /\ UNCHANGED orchVars

(***************************************************************************)
(* execute_workflow, lines 142-145: line 142 passes a failed save to the   *)
(* caller through `?`, line 145 returns the execution.                     *)
(***************************************************************************)
ReturnExecution ==
    /\ pc = "saved"
    /\ result' = IF save_result[1].ok THEN Some(Ok(Exec)) ELSE Some(save_result[1])
    /\ pc' = "done"
    /\ UNCHANGED << steps, variables, retry_attempts, timeout_seconds,
                    command_secs, sort_result, sorted_steps,
                    idx, step_execution, max_retries, attempt, last_error,
                    invoked, sleeps, execution, records, save_result >>
    /\ UNCHANGED orchVars

Next ==
    \/ LoadError
    \/ SortError
    \/ StartSteps
    \/ BeginStep
    \/ Attempt
    \/ MarkCompleted
    \/ save_execution_record_create
    \/ save_execution_record_write
    \/ ReturnExecution

(***************************************************************************)
(* Orchestrator (src/src/orchestrator/mod.rs).  The calls of               *)
(* process_upload and execute_workflow run concurrently on the runtime's   *)
(* worker threads; each update of one registry entry (DashMap get_mut /    *)
(* insert / remove) is atomic, and a call is split where another thread     *)
(* can observe or change the registry in between.                          *)
(***************************************************************************)
MaxTasks == 2       \* calls of process_upload / execute_workflow
MaxPermits == 1     \* largest max_concurrent_workflows drawn besides the default
MaxSweeps == 2      \* calls of cleanup_completed_tasks that run at once

default_max_concurrent_workflows == 4   \* WorkflowConfig::default

TaskIds == 1..MaxTasks          \* the Uuids of the calls, in submission order
TaskTypes == { "Upload", "Workflow" }

\* the calls alternate between execute_workflow and process_upload
TaskTypeOf(t) == IF t % 2 = 1 THEN "Workflow" ELSE "Upload"
Terminal == { "Completed", "Failed", "Cancelled" }

\* the instants (minutes) at which the clock is read: 0, 24 h 30 min, 25 h
Instants == { 0, 1470, 1500 }

\* the entry constructed as already started
TaskInfo_started(id, task_type) ==
    [ id |-> id, task_type |-> task_type, status |-> "Running",
      created_at |-> Now, started_at |-> Some(Now), completed_at |-> None,
      error_message |-> None ]

\* TaskInfo as process_upload / execute_workflow construct it (64-72, 108-116);
\* created_at and started_at are only ever written
TaskInfo(id, task_type) ==
    [ id |-> id, task_type |-> task_type, status |-> "Pending",
      created_at |-> Now, started_at |-> None, completed_at |-> None,
      error_message |-> None ]

\* what the delegate of a call returns: upload_manager.process_upload or
\* workflow_engine.execute_workflow
DelegateResults(task_type) ==
    IF task_type = "Workflow"
    THEN { Ok("execution"), Err([msg |-> "Step failed"]) }
    ELSE { Ok("upload"), Err([msg |-> "Upload failed"]) }

to_string(e) == e.msg               \* e.to_string()
map_unit(r) == IF r.ok THEN Ok("()") ELSE r     \* result.map(|_| ())

\* active_tasks.get_mut(&id) is Some
Tracked(id) == id \in DOMAIN active_tasks

insert(id, info) == (id :> info) @@ active_tasks

\* the entry left in place
remove_keeps_entry(id) == active_tasks

\* active_tasks.remove(&id)
remove(id) == [i \in DOMAIN active_tasks \ { id } |-> active_tasks[i]]

NewCall == [ pc |-> "idle", task_type |-> "Workflow", result |-> None ]

\* lines 63-75 / 107-119: a fresh id, the Pending entry inserted
Submit(t, task_type) ==
    /\ tasks[t].pc = "idle"
    /\ \A u \in TaskIds : u < t => tasks[u].pc # "idle"
    /\ active_tasks' = insert(t, TaskInfo(t, task_type))
    /\ tasks' = [tasks EXCEPT ![t] = [@ EXCEPT !.pc = "inserted",
                                               !.task_type = task_type]]
    /\ UNCHANGED << max_concurrent_workflows, permits, waiters, now, cleanup,
                    reported >>
    /\ UNCHANGED << iter_order, listing, twice, engineVars >>

\* the call going on without waiting for a permit
Acquire_without_waiting(t) ==
    /\ tasks[t].pc = "inserted"
    /\ permits' = IF permits > 0 THEN permits - 1 ELSE permits
    /\ tasks' = [tasks EXCEPT ![t].pc = "acquired"]
    /\ UNCHANGED << max_concurrent_workflows, active_tasks, waiters, now, cleanup,
                    reported >>
    /\ UNCHANGED << iter_order, listing, twice, engineVars >>

\* lines 77 / 121, self.semaphore.acquire(): a permit is taken if one is
\* available, else the call joins the queue and is suspended
Acquire(t) ==
    /\ tasks[t].pc = "inserted"
    /\ IF permits > 0
       THEN /\ permits' = permits - 1
            /\ tasks' = [tasks EXCEPT ![t].pc = "acquired"]
            /\ UNCHANGED waiters
       ELSE /\ waiters' = Append(waiters, t)
            /\ tasks' = [tasks EXCEPT ![t].pc = "queued"]
            /\ UNCHANGED permits
    /\ UNCHANGED << max_concurrent_workflows, active_tasks, now, cleanup,
                    reported >>
    /\ UNCHANGED << iter_order, listing, twice, engineVars >>

\* the status written without the start timestamp
SetRunning_without_timestamp(task) == [task EXCEPT !.status = "Running"]

\* lines 81-82 / 125-126, under one get_mut
SetRunning(task) == [task EXCEPT !.status = "Running", !.started_at = Some(Now)]

\* lines 80-83 / 124-127: the entry, if still tracked, is set to Running
MarkRunning(t) ==
    /\ tasks[t].pc = "acquired"
    /\ active_tasks' = IF Tracked(t)
                       THEN [active_tasks EXCEPT ![t] = SetRunning(@)]
                       ELSE active_tasks
    /\ tasks' = [tasks EXCEPT ![t].pc = "delegate"]
    /\ UNCHANGED << max_concurrent_workflows, permits, waiters, now, cleanup,
                    reported >>
    /\ UNCHANGED << iter_order, listing, twice, engineVars >>

\* the Err arm leaving error_message as it was
SetResult_without_message(task, r, at) ==
    IF r.ok
    THEN [task EXCEPT !.status = "Completed", !.completed_at = Some(at)]
    ELSE [task EXCEPT !.status = "Failed", !.completed_at = Some(at)]

\* lines 88-101 / 132-145: the update after the delegate returned `r`
SetResult(task, r, at) ==
    IF r.ok
    THEN [task EXCEPT !.status = "Completed", !.completed_at = Some(at)]
    ELSE [task EXCEPT !.status = "Failed",
                      !.error_message = Some(to_string(r.val)),
                      !.completed_at = Some(at)]

\* the update after the delegate putting back an entry that is gone
DelegateReturns_reinserts(t) ==
    /\ tasks[t].pc = "delegate"
    /\ \E r \in DelegateResults(tasks[t].task_type) :
         /\ active_tasks' =
                IF Tracked(t)
                THEN [active_tasks EXCEPT ![t] = SetResult(@, r, now)]
                ELSE insert(t, SetResult(TaskInfo(t, tasks[t].task_type), r, now))
         /\ tasks' = [tasks EXCEPT ![t] = [@ EXCEPT !.pc = "marked",
                                                    !.result = Some(r)]]
    /\ UNCHANGED << max_concurrent_workflows, permits, waiters, now, cleanup,
                    reported >>
    /\ UNCHANGED << iter_order, listing, twice, engineVars >>

\* lines 85-101 / 129-145: the delegate returns and the entry, if still
\* tracked, is set to Completed or Failed
DelegateReturns(t) ==
    /\ tasks[t].pc = "delegate"
    /\ \E r \in DelegateResults(tasks[t].task_type) :
         /\ active_tasks' = IF Tracked(t)
                            THEN [active_tasks EXCEPT ![t] = SetResult(@, r, now)]
                            ELSE active_tasks
         /\ tasks' = [tasks EXCEPT ![t] = [@ EXCEPT !.pc = "marked",
                                                    !.result = Some(r)]]
    /\ UNCHANGED << max_concurrent_workflows, permits, waiters, now, cleanup,
                    reported >>
    /\ UNCHANGED << iter_order, listing, twice, engineVars >>

\* a released permit handed to the head of the queue and also put back
Return_double_release(t) ==
    /\ tasks[t].pc = "marked"
    /\ IF waiters # << >>
       THEN /\ tasks' = [tasks EXCEPT ![t].pc = "returned",
                                      ![Head(waiters)].pc = "acquired"]
            /\ waiters' = Tail(waiters)
       ELSE /\ tasks' = [tasks EXCEPT ![t].pc = "returned"]
            /\ UNCHANGED waiters
    /\ permits' = permits + 1
    /\ UNCHANGED << max_concurrent_workflows, active_tasks, now, cleanup,
                    reported >>
    /\ UNCHANGED << iter_order, listing, twice, engineVars >>

\* the permit put back without resuming the call at the head of the queue
Return_without_wakeup(t) ==
    /\ tasks[t].pc = "marked"
    /\ tasks' = [tasks EXCEPT ![t].pc = "returned"]
    /\ permits' = permits + 1
    /\ UNCHANGED << max_concurrent_workflows, active_tasks, waiters, now, cleanup,
                    reported >>
    /\ UNCHANGED << iter_order, listing, twice, engineVars >>

\* the permit kept when the call returns
Return_keeps_permit(t) ==
    /\ tasks[t].pc = "marked"
    /\ tasks' = [tasks EXCEPT ![t].pc = "returned"]
    /\ UNCHANGED << max_concurrent_workflows, active_tasks, permits, waiters, now,
                    cleanup, reported >>
    /\ UNCHANGED << iter_order, listing, twice, engineVars >>

\* lines 103-104 / 147-148: `_permit` is dropped and the result returned.  A
\* released permit goes to the call at the head of the semaphore's queue, if
\* any, which resumes holding it
Return(t) ==
    /\ tasks[t].pc = "marked"
    /\ IF waiters # << >>
       THEN /\ tasks' = [tasks EXCEPT ![t].pc = "returned",
                                      ![Head(waiters)].pc = "acquired"]
            /\ waiters' = Tail(waiters)
            /\ UNCHANGED permits
       ELSE /\ tasks' = [tasks EXCEPT ![t].pc = "returned"]
            /\ permits' = permits + 1
            /\ UNCHANGED waiters
    /\ UNCHANGED << max_concurrent_workflows, active_tasks, now, cleanup,
                    reported >>
    /\ UNCHANGED << iter_order, listing, twice, engineVars >>

\* the value a returned call handed to its caller
ReturnValue(t) == map_unit(tasks[t].result[1])

SetCancelled(task, at) ==
    [task EXCEPT !.status = "Cancelled", !.completed_at = Some(at)]

\* cancellation that also takes the permit away from the cancelled call
cancel_task_preempts(task_id) ==
    /\ active_tasks' = IF Tracked(task_id)
                       THEN [active_tasks EXCEPT ![task_id] = SetCancelled(@, now)]
                       ELSE active_tasks
    /\ IF tasks[task_id].pc \in { "acquired", "delegate", "marked" }
       THEN /\ tasks' = [tasks EXCEPT ![task_id].pc = "returned"]
            /\ permits' = permits + 1
       ELSE UNCHANGED << tasks, permits >>
    /\ UNCHANGED << max_concurrent_workflows, waiters, now, cleanup, reported >>
    /\ UNCHANGED << iter_order, listing, twice, engineVars >>

\* cancel_task, lines 161-170: the entry, if tracked, is set to Cancelled
cancel_task(task_id) ==
    /\ active_tasks' = IF Tracked(task_id)
                       THEN [active_tasks EXCEPT ![task_id] = SetCancelled(@, now)]
                       ELSE active_tasks
    /\ UNCHANGED << max_concurrent_workflows, permits, waiters, tasks, now,
                    cleanup, reported >>
    /\ UNCHANGED << iter_order, listing, twice, engineVars >>

\* line 169: cancel_task returns Ok(()) on either branch
cancel_task_returns(task_id) == Ok("()")

\* get_task_status, lines 150-152: a copy of the entry, if there is one
get_task_status(task_id) ==
    IF Tracked(task_id) THEN Some(active_tasks[task_id]) ELSE None

\* the part of the map a call of list_active_tasks has gone through, and the
\* Vec it has collected so far
ListPassed == IF listing = None THEN { } ELSE listing[1].passed

\* the orders in which an iterator can come to the ids
IterOrders ==
    { o \in [1..MaxTasks -> TaskIds] : \A m, n \in 1..MaxTasks : m # n => o[m] # o[n] }

\* DashMap::iter after the parts holding the ids `passed`: the id whose part
\* comes next
NextInIter(passed) ==
    iter_order[CHOOSE n \in 1..MaxTasks :
                   /\ iter_order[n] \notin passed
                   /\ \A m \in 1..(n - 1) : iter_order[m] \in passed]
ListCopies == IF listing = None THEN << >> ELSE listing[1].copies

\* line 157, |task| task.clone(), for the part of the map that holds `id`
CloneEntry(id, copies) ==
    IF Tracked(id) THEN Append(copies, active_tasks[id]) ELSE copies

\* list_active_tasks, lines 154-159: one step of iter().map(clone).collect().
\* As in the scan of the cleanup the map is gone through part by part, in an
\* order fixed by the hashes of the ids, and the other operations go on
\* between two visits: the Vec holds each entry as it was when its part was
\* reached, and lacks an entry inserted into a part already passed.  After
\* the last part the Vec is returned
list_active_tasks ==
    /\ \E id \in { NextInIter(ListPassed) } :
         listing' = IF ListPassed \cup { id } = TaskIds
                    THEN None
                    ELSE Some([ passed |-> ListPassed \cup { id },
                                copies |-> CloneEntry(id, ListCopies) ])
    /\ UNCHANGED << max_concurrent_workflows, active_tasks, permits, waiters,
                    tasks, now, cleanup, reported >>
    /\ UNCHANGED << iter_order, twice, engineVars >>

\* the Vec list_active_tasks returns when it goes through the one part it
\* has left, the part holding `id`
list_active_tasks_returns(id) == CloneEntry(id, ListCopies)

\* time passes
Tick ==
    /\ now' \in { i \in Instants : i > now }
    /\ UNCHANGED << max_concurrent_workflows, active_tasks, permits, waiters,
                    tasks, cleanup, reported >>
    /\ UNCHANGED << iter_order, listing, twice, engineVars >>

num_hours(minutes) == minutes \div 60       \* chrono::Duration::num_hours

\* the test of lines 176-184 on one entry, the clock reading `at`
Expired(task, at) ==
    /\ task.status \in Terminal
    /\ task.completed_at # None
    /\ num_hours(at - task.completed_at[1]) > 24

\* cleanup_completed_tasks takes &self and no lock of its own: calls of it
\* can run at once, on different threads
Sweeps == 1..MaxSweeps

\* where the call `c` of cleanup_completed_tasks is: not running, in its
\* scan, in its removal loop
CleanupPhase(c) == IF cleanup[c] = None THEN "idle" ELSE cleanup[c][1].phase

\* the part of the map the scan of `c` has gone through, and its `to_remove`
ScanPassed(c) == IF cleanup[c] = None THEN { } ELSE cleanup[c][1].passed
ScanToRemove(c) == IF cleanup[c] = None THEN << >> ELSE cleanup[c][1].to_remove

\* a scan that pushes nothing once it has pushed an entry
ScanEntry_first_only(id, to_remove, at) ==
    IF to_remove = << >> /\ Tracked(id) /\ Expired(active_tasks[id], at)
    THEN Append(to_remove, id)
    ELSE to_remove

\* lines 176-187, the body of the scan's loop for the part of the map that
\* holds `id`: an entry found there is judged against a clock reading of its
\* own (line 180) and, if it passes, pushed on to_remove
ScanEntry(id, to_remove, at) ==
    IF Tracked(id) /\ Expired(active_tasks[id], at)
    THEN Append(to_remove, id)
    ELSE to_remove

\* line 173: the locals of a call that has visited nothing yet
NewSweep ==
    [ phase |-> "scan", passed |-> { }, to_remove |-> << >>, removed_count |-> 0 ]

\* cleanup_completed_tasks, lines 173-190: one step of the scan that fills
\* the to_remove of the call `c`.  DashMap::iter goes through the map part by
\* part and holds a part's lock only while it is in it, in an order fixed by
\* the hashes of the ids, so the other operations, the other calls of
\* cleanup_completed_tasks and the clock go on between two visits: an entry is
\* judged as it is when its part is reached, and one inserted into a part
\* already passed is not seen.  After the last part removed_count is taken
\* (line 190) and the call goes on to its removal loop or, with nothing to
\* remove, to its report.  (A new call runs as the first call that is not
\* running.)
CleanupScan(c) ==
    /\ CleanupPhase(c) \in { "idle", "scan" }
    /\ CleanupPhase(c) = "idle" =>
          \A d \in Sweeps : d < c => CleanupPhase(d) # "idle"
    /\ \E id \in { NextInIter(ScanPassed(c)) } :
         LET passed == ScanPassed(c) \cup { id }
             to_remove == ScanEntry(id, ScanToRemove(c), now)
         IN  cleanup' = [cleanup EXCEPT ![c] =
                 Some([ phase |-> IF passed # TaskIds THEN "scan"
                                  ELSE IF to_remove = << >> THEN "report"
                                  ELSE "remove",
                        passed |-> passed,
                        to_remove |-> to_remove,
                        removed_count |-> IF passed # TaskIds THEN 0
                                          ELSE Len(to_remove) ])]
    /\ reported' = None
    /\ UNCHANGED << max_concurrent_workflows, active_tasks, permits, waiters,
                    tasks, now >>
    /\ UNCHANGED << iter_order, listing, twice, engineVars >>

\* lines 191-193: one iteration of the removal loop of the call `c`, over
\* to_remove in the order of the pushes; the remove of an id that is no
\* longer in the map (another call took it out) does nothing.  After the last
\* iteration the call goes on to its report
CleanupRemove(c) ==
    /\ CleanupPhase(c) = "remove"
    /\ active_tasks' = remove(Head(cleanup[c][1].to_remove))
    /\ cleanup' = [cleanup EXCEPT ![c] =
                     Some([cleanup[c][1] EXCEPT
                              !.to_remove = Tail(@),
                              !.phase = IF Tail(cleanup[c][1].to_remove) = << >>
                                        THEN "report" ELSE "remove"])]
    /\ reported' = None
    /\ UNCHANGED << max_concurrent_workflows, permits, waiters, tasks, now >>
    /\ UNCHANGED << iter_order, listing, twice, engineVars >>

\* line 195: the count taken at line 190 is reported, and the call returns.
\* The report holds no lock: the other operations and the other calls have
\* gone on since the last visit or remove of this call
CleanupReport(c) ==
    /\ CleanupPhase(c) = "report"
    /\ reported' = Some(cleanup[c][1].removed_count)
    /\ cleanup' = [cleanup EXCEPT ![c] = None]
    /\ UNCHANGED << max_concurrent_workflows, active_tasks, permits, waiters,
                    tasks, now >>
    /\ UNCHANGED << iter_order, listing, twice, engineVars >>

(***************************************************************************)
(* A caller that runs cleanup_completed_tasks twice in succession: it      *)
(* calls, awaits the return, and calls again.  Its runs are the call 1.    *)
(***************************************************************************)
NoCaller == [ at |-> "idle", called_at |-> 0, left |-> << >> ]

\* the first call (lines 172-173)
TwiceCallFirst ==
    /\ twice.at = "idle"
    /\ CleanupPhase(1) = "idle"
    /\ cleanup' = [cleanup EXCEPT ![1] = Some(NewSweep)]
    /\ twice' = [ at |-> "first", called_at |-> now, left |-> << >> ]
    /\ UNCHANGED << max_concurrent_workflows, active_tasks, permits, waiters,
                    tasks, now, reported >>
    /\ UNCHANGED << iter_order, listing, engineVars >>

\* the first run has returned: the second call, the caller keeping the
\* registry as the first run left it
TwiceCallSecond ==
    /\ twice.at = "first"
    /\ CleanupPhase(1) = "idle"
    /\ cleanup' = [cleanup EXCEPT ![1] = Some(NewSweep)]
    /\ twice' = [twice EXCEPT !.at = "second", !.left = active_tasks]
    /\ UNCHANGED << max_concurrent_workflows, active_tasks, permits, waiters,
                    tasks, now, reported >>
    /\ UNCHANGED << iter_order, listing, engineVars >>

\* nothing but the caller's second run goes on once its first run has
\* returned: no other operation and no passage of time in between
Undisturbed ==
    \/ twice.at = "idle"
    \/ twice.at = "first" /\ CleanupPhase(1) # "idle"

NextOrch ==
    \/ \E t \in TaskIds : Submit(t, TaskTypeOf(t))
    \/ \E t \in TaskIds : Acquire(t)
    \/ \E t \in TaskIds : MarkRunning(t)
    \/ \E t \in TaskIds : DelegateReturns(t)
    \/ \E t \in TaskIds : Return(t)
    \/ \E task_id \in TaskIds : cancel_task(task_id)
    \/ Tick
    \/ \E c \in Sweeps : CleanupScan(c)
    \/ \E c \in Sweeps : CleanupRemove(c)
    \/ \E c \in Sweeps : CleanupReport(c)

\* AutomationOrchestrator::new, lines 46-60
NewOrchestrator ==
    /\ active_tasks = << >>
    /\ permits = max_concurrent_workflows
    /\ waiters = << >>
    /\ tasks = [t \in TaskIds |-> NewCall]
    /\ now = 0
    /\ cleanup = [c \in Sweeps |-> None]
    /\ reported = None
    /\ listing = None

(***************************************************************************)
(* Inputs.                                                                 *)
(***************************************************************************)
Str_f == << "f" >>
Str_fx == << "f", "x" >>
Str_true == << "t", "r", "u", "e" >>
Str_TRUE == << "T", "R", "U", "E" >>
Str_false == << "f", "a", "l", "s", "e" >>

\* workflow.variables
VarMaps ==
    { << >>,
      (Str_f :> Str_TRUE),
      (Str_f :> Str_false),
      (Str_f :> Str_false) @@ (Str_fx :> Str_true) }

\* step.condition
Conditions ==
    { None, Some(<< "$" >> \o Str_f), Some(<< "$" >> \o Str_fx),
      Some(Str_true), Some(Str_false) }

RetryCounts == { None } \cup { Some(r) : r \in 0..MaxRetry }

\* step.timeout, seconds
StepTimeouts == { None, Some(1) }

\* scheduler inputs: the step lists of at most n steps over StepIds, duplicate
\* and unresolved ids included
SortSteps == { WorkflowStep(id, d, None, None, None, None) : id \in StepIds, d \in DepLists }

IsSortInput(w, n) == \E k \in 0..n : w \in [1..k -> SortSteps]

UniqueIds(all_steps) ==
    \A i, j \in 1..Len(all_steps) : all_steps[i].id = all_steps[j].id => i = j

\* engine inputs: the workflows of at most n steps whose step ids are unique, as
\* the data model of a workflow requires; a step may carry the condition "$f";
\* retries come from the configuration
EngineConditions == { None, Some(<< "$" >> \o Str_f) }

\* step.output: step "a" names the workflow variable "f" as its output variable
OutputOf(id) == IF id = "a" THEN Some(Str_f) ELSE None

IdLists(n) == { ids \in SeqsUpTo(StepIds, n) : Distinct(ids) }

IsWorkflow(w, n) ==
    \E ids \in IdLists(n) :
        \E a \in [1..Len(ids) -> DepLists \X EngineConditions] :
            w = [i \in 1..Len(ids) |-> WorkflowStep(ids[i], a[i][1], None, a[i][2], None,
                                                      OutputOf(ids[i]))]

\* step executor inputs: one step, every retry override and condition
SingleSteps ==
    { << WorkflowStep("a", d, r, c, t, OutputOf("a")) >> :
        d \in SeqsUpTo(StepIds, 1), r \in RetryCounts, c \in Conditions,
        t \in StepTimeouts }

InitLocals ==
    /\ sort_result = None
    /\ execution = None
    /\ sorted_steps = << >>
    /\ idx = 0
    /\ step_execution = None
    /\ max_retries = 0
    /\ attempt = 0
    /\ last_error = None
    /\ invoked = << >>
    /\ sleeps = << >>
    /\ records = << >>
    /\ save_result = None
    /\ result = None

Init ==
    /\ IsWorkflow(steps, MaxSteps)
    /\ variables \in { (Str_f :> Str_TRUE), (Str_f :> Str_false) }
    /\ retry_attempts \in 0..1
    /\ timeout_seconds = MaxSecs
    /\ command_secs = { 1 }
    /\ pc = "start"
    /\ InitLocals
    /\ max_concurrent_workflows = default_max_concurrent_workflows
    /\ NewOrchestrator
    /\ twice = NoCaller
    /\ iter_order = [n \in 1..MaxTasks |-> n]

Spec == Init /\ [][Next]_vars

InitStep ==
    /\ steps \in SingleSteps
    /\ variables \in VarMaps
    /\ retry_attempts \in 0..MaxRetry
    /\ timeout_seconds \in 1..MaxSecs
    /\ command_secs = 1..(MaxSecs + 1)
    /\ pc = "start"
    /\ InitLocals
    /\ max_concurrent_workflows = default_max_concurrent_workflows
    /\ NewOrchestrator
    /\ twice = NoCaller
    /\ iter_order = [n \in 1..MaxTasks |-> n]

SpecStep == InitStep /\ [][Next]_vars

(***************************************************************************)
(* The scheduler on its own: sort_steps_by_dependencies applied to a step  *)
(* list.                                                                   *)
(***************************************************************************)
InitSort ==
    /\ IsSortInput(steps, MaxSteps)
    /\ variables = << >>
    /\ retry_attempts = 0
    /\ timeout_seconds = MaxSecs
    /\ command_secs = { 1 }
    /\ pc = "sort"
    /\ InitLocals
    /\ max_concurrent_workflows = default_max_concurrent_workflows
    /\ NewOrchestrator
    /\ twice = NoCaller
    /\ iter_order = [n \in 1..MaxTasks |-> n]

RunScheduler ==
    /\ pc = "sort"
    /\ sort_result' = Some(sort_steps_by_dependencies(steps))
    /\ pc' = "sorted"
    /\ UNCHANGED << save_result, steps, variables, retry_attempts,
                    timeout_seconds,
                    command_secs, execution, sorted_steps, idx,
                    step_execution, max_retries, attempt, last_error, invoked,
                    sleeps, records, result >>
    /\ UNCHANGED orchVars

SpecSort == InitSort /\ [][RunScheduler]_vars

(***************************************************************************)
(* The orchestrator on its own: the delegates are taken by what they       *)
(* return.                                                                 *)
(***************************************************************************)
InitOrch ==
    /\ steps = << >>
    /\ variables = << >>
    /\ retry_attempts = 0
    /\ timeout_seconds = MaxSecs
    /\ command_secs = { 1 }
    /\ pc = "idle"
    /\ InitLocals
    /\ max_concurrent_workflows \in (0..MaxPermits) \cup { default_max_concurrent_workflows }
    /\ NewOrchestrator
    /\ twice = NoCaller
    /\ iter_order \in IterOrders

SpecOrch == InitOrch /\ [][NextOrch]_vars

\* the orchestrator with a caller that runs the cleanup twice in succession:
\* the calls, cancel_task and the clock go on before and during its first
\* run, and nothing but its second run once the first has returned
NextTwice ==
    \/ Undisturbed /\ \E t \in TaskIds : Submit(t, TaskTypeOf(t))
    \/ Undisturbed /\ \E t \in TaskIds : Acquire(t)
    \/ Undisturbed /\ \E t \in TaskIds : MarkRunning(t)
    \/ Undisturbed /\ \E t \in TaskIds : DelegateReturns(t)
    \/ Undisturbed /\ \E t \in TaskIds : Return(t)
    \/ Undisturbed /\ \E task_id \in TaskIds : cancel_task(task_id)
    \/ Undisturbed /\ Tick
    \/ TwiceCallFirst
    \/ TwiceCallSecond
    \/ CleanupPhase(1) = "scan" /\ CleanupScan(1)
    \/ CleanupRemove(1)
    \/ CleanupReport(1)

SpecTwice == InitOrch /\ [][NextTwice]_vars

\* the orchestrator with a reader: list_active_tasks is called again and
\* again while the calls, cancel_task, the clock and the cleanups go on
NextRead ==
    \/ \E t \in TaskIds : Submit(t, TaskTypeOf(t))
    \/ \E t \in TaskIds : Acquire(t)
    \/ \E t \in TaskIds : MarkRunning(t)
    \/ \E t \in TaskIds : DelegateReturns(t)
    \/ \E t \in TaskIds : Return(t)
    \/ \E task_id \in TaskIds : cancel_task(task_id)
    \/ Tick
    \/ \E c \in Sweeps : CleanupScan(c)
    \/ \E c \in Sweeps : CleanupRemove(c)
    \/ \E c \in Sweeps : CleanupReport(c)
    \/ list_active_tasks

SpecOrchRead == InitOrch /\ [][NextRead]_vars

\* the runtime keeps polling a call that can go on: a call that can ask for a
\* permit does, a call resumed with a permit goes on to its delegate, the
\* delegate returns, and the call that has its result returns.  Submissions,
\* cancel_task, the clock and cleanup are under no obligation
CallsGoOn ==
    \A t \in TaskIds :
        /\ WF_vars(Acquire(t))
        /\ WF_vars(MarkRunning(t))
        /\ WF_vars(DelegateReturns(t))
        /\ WF_vars(Return(t))

\* the steps that read or write the semaphore and the calls' positions: the
\* clock and cleanup touch neither, so they are left out where only the
\* progress of the calls is at stake
NextCalls ==
    \/ \E t \in TaskIds : Submit(t, TaskTypeOf(t))
    \/ \E t \in TaskIds : Acquire(t)
    \/ \E t \in TaskIds : MarkRunning(t)
    \/ \E t \in TaskIds : DelegateReturns(t)
    \/ \E t \in TaskIds : Return(t)
    \/ \E task_id \in TaskIds : cancel_task(task_id)

SpecOrchFair == InitOrch /\ [][NextCalls]_vars /\ CallsGoOn

(***************************************************************************)
(* The dependency graph of a step list, by step id.                        *)
(***************************************************************************)
DeclaredIds(all_steps) == { all_steps[i].id : i \in 1..Len(all_steps) }

DepSet(step) == { step.depends_on[k] : k \in 1..Len(step.depends_on) }

DirectDeps(all_steps, id) ==
    UNION { DepSet(all_steps[i]) : i \in { j \in 1..Len(all_steps) : all_steps[j].id = id } }

RECURSIVE DepClosure(_, _)
DepClosure(all_steps, S) ==
    LET more == S \cup UNION { DirectDeps(all_steps, x) : x \in S }
    IN  IF more = S THEN S ELSE DepClosure(all_steps, more)

\* the ids a step reaches through one or more dependency edges
TransitiveDeps(all_steps, id) == DepClosure(all_steps, DirectDeps(all_steps, id))

AllResolve(all_steps) ==
    \A i \in 1..Len(all_steps) : DepSet(all_steps[i]) \subseteq DeclaredIds(all_steps)

OnCycle(all_steps, id) == id \in TransitiveDeps(all_steps, id)

HasCycle(all_steps) == \E id \in DeclaredIds(all_steps) : OnCycle(all_steps, id)

\* position of the step with id `id` in an ordering (a sequence of indices), 0 if absent
PositionOf(all_steps, order, id) ==
    IF \E p \in 1..Len(order) : all_steps[order[p]].id = id
    THEN CHOOSE p \in 1..Len(order) : all_steps[order[p]].id = id
    ELSE 0

SortReturned == pc = "sorted" /\ sort_result # None

(***************************************************************************)
(* C1: for a step list with unique ids whose dependency ids all resolve    *)
(* and whose dependency graph is acyclic, sort_steps_by_dependencies       *)
(* succeeds, and its output contains every step exactly once and places    *)
(* every step after all of its transitive dependencies.                    *)
(***************************************************************************)
C1_SortLinearizes ==
    (SortReturned /\ UniqueIds(steps) /\ AllResolve(steps) /\ ~HasCycle(steps)) =>
        LET r == sort_result[1]
        IN  /\ r.ok
            /\ Len(r.sorted) = Len(steps)
            /\ \A i \in 1..Len(steps) :
                 Cardinality({ p \in 1..Len(r.sorted) : r.sorted[p] = i }) = 1
            /\ \A p \in 1..Len(r.sorted) :
                 \A d \in TransitiveDeps(steps, steps[r.sorted[p]].id) :
                    /\ PositionOf(steps, r.sorted, d) # 0
                    /\ PositionOf(steps, r.sorted, d) < p

\* a chain declared in reverse: the first step reaches the last through the second
C1_Witness ==
    /\ SortReturned /\ UniqueIds(steps) /\ AllResolve(steps) /\ ~HasCycle(steps)
    /\ Len(steps) = 3
    /\ steps[1].depends_on = << steps[2].id >>
    /\ steps[2].depends_on = << steps[3].id >>
    /\ sort_result[1].ok
    /\ sort_result[1].sorted = << 3, 2, 1 >>

(***************************************************************************)
(* C2, as stated: for any step list whose dependency graph contains a      *)
(* cycle, the sort returns a circular-dependency error naming a step on a  *)
(* cycle, and no ordering.                                                 *)
(***************************************************************************)
IsCircularError(all_steps, r) ==
    /\ ~r.ok
    /\ r.sorted = << >>
    /\ \E id \in DeclaredIds(all_steps) :
         r.err = CircularDependency(id) /\ OnCycle(all_steps, id)

IsNotFoundError(all_steps, r) ==
    /\ ~r.ok
    /\ r.sorted = << >>
    /\ \E i \in 1..Len(all_steps) :
         \E d \in DepSet(all_steps[i]) \ DeclaredIds(all_steps) :
            r.err = DependencyNotFound(d)

C2_Original ==
    (SortReturned /\ HasCycle(steps)) => IsCircularError(steps, sort_result[1])

(***************************************************************************)
(* C2, amended: for any step list with unique ids whose dependency graph   *)
(* contains a cycle, the sort returns an error and no ordering; the error  *)
(* is a circular-dependency error naming a step on a cycle, or, only when  *)
(* some dependency id names no step, a dependency-not-found error naming   *)
(* such an id.  With every dependency id resolving it is the circular      *)
(* error.                                                                  *)
(***************************************************************************)
C2_CycleIsAnError ==
    (SortReturned /\ UniqueIds(steps) /\ HasCycle(steps)) =>
        /\ \/ IsCircularError(steps, sort_result[1])
           \/ IsNotFoundError(steps, sort_result[1])
        /\ AllResolve(steps) => IsCircularError(steps, sort_result[1])

\* a two-step cycle entered from a step outside it: the error names the step
\* at which the cycle was re-entered
C2_Witness ==
    /\ SortReturned /\ UniqueIds(steps) /\ AllResolve(steps)
    /\ Len(steps) = 3
    /\ steps[1].depends_on = << steps[2].id >>
    /\ steps[2].depends_on = << steps[3].id >>
    /\ steps[3].depends_on = << steps[2].id >>
    /\ sort_result[1] = [ok |-> FALSE, err |-> CircularDependency(steps[2].id),
                         sorted |-> << >>]

(***************************************************************************)
(* Vocabulary of the engine claims.                                        *)
(***************************************************************************)
ValidWorkflow(all_steps) ==
    UniqueIds(all_steps) /\ AllResolve(all_steps) /\ ~HasCycle(all_steps)

StepsExecuted == IF execution = None THEN << >> ELSE Exec.steps_executed

\* the execution records that are persisted: the files that hold a whole record
IsWhole(file) == file.whole
Saved ==
    LET whole == SelectSeq(records, IsWhole)
    IN  [n \in 1..Len(whole) |-> whole[n].execution]

Settled(se) == se.status \in { "Completed", "Skipped" }

Returned == result # None

\* the command invocations of the step with id `id`, in order
InvocationsOf(id) == SelectSeq(invoked, LAMBDA e : e.step = id)

\* the effective max-retries of the step with id `id`: its retry_count override
\* when present, otherwise the configuration's retry_attempts
MaxRetriesOf(id) ==
    LET step == steps[FindStep(steps, id)]
    IN  IF step.retry_count # None THEN step.retry_count[1] ELSE retry_attempts

\* the StepExecutions of the step with id `id` that execute_step has returned
ReturnedFor(id) ==
    { k \in 1..Len(StepsExecuted) : StepsExecuted[k].step_id = id }

(***************************************************************************)
(* C3: when the workflow's steps contain a dependency cycle or a           *)
(* dependency id that names no step, execute_workflow returns an error,    *)
(* no step command is invoked at all and no execution record is persisted. *)
(***************************************************************************)
C3_GraphErrorRunsNothing ==
    (HasCycle(steps) \/ ~AllResolve(steps)) =>
        /\ pc \in { "start", "done" }
        /\ invoked = << >>
        /\ StepsExecuted = << >>
        /\ records = << >>
        /\ pc = "done" => (Returned /\ ~result[1].ok)

\* a cycle between the second and third step; the first step, unrelated to it
\* and declared first, was not run either
C3_Witness ==
    /\ pc = "done"
    /\ Len(steps) = 3
    /\ steps[1].depends_on = << >>
    /\ steps[2].depends_on = << steps[3].id >>
    /\ steps[3].depends_on = << steps[2].id >>
    /\ result = Some(Err(CircularDependency(steps[2].id)))
    /\ invoked = << >>
    /\ records = << >>

(***************************************************************************)
(* C4: when a step's command is first invoked, or the step is skipped,     *)
(* every step it depends on already has a StepExecution in steps_executed  *)
(* with status Completed or Skipped; a step whose dependency ended Failed  *)
(* is never started.                                                       *)
(***************************************************************************)
DepsSettledBefore(id, k) ==
    \A d \in DirectDeps(steps, id) :
        \E j \in 1..(k - 1) : StepsExecuted[j].step_id = d /\ Settled(StepsExecuted[j])

C4_DependenciesSettledFirst ==
    /\ \A k \in 1..Len(StepsExecuted) : DepsSettledBefore(StepsExecuted[k].step_id, k)
    /\ pc = "attempt" => DepsSettledBefore(CurrentStep.id, Len(StepsExecuted) + 1)
    /\ \A n \in 1..Len(invoked) :
         \A d \in DirectDeps(steps, invoked[n].step) :
            ~(\E j \in 1..Len(StepsExecuted) :
                StepsExecuted[j].step_id = d /\ StepsExecuted[j].status = "Failed")

\* a step about to be invoked whose two dependencies ended Skipped and Completed
C4_Witness ==
    /\ pc = "attempt"
    /\ Len(invoked) = 1
    /\ Cardinality(DirectDeps(steps, CurrentStep.id)) = 2
    /\ Len(StepsExecuted) = 2
    /\ StepsExecuted[1].status = "Skipped"
    /\ StepsExecuted[2].status = "Completed"

(***************************************************************************)
(* C5: fail-fast.  As soon as a StepExecution has status Failed no further *)
(* step is started: steps_executed is the prefix of the resolved order up  *)
(* to and including the failing step, all earlier entries Completed or     *)
(* Skipped; the execution's status is Failed, its error_message is the     *)
(* failing step's, and execute_workflow returns an error.                  *)
(***************************************************************************)
C5_FailFast ==
    \A k \in 1..Len(StepsExecuted) :
        StepsExecuted[k].status = "Failed" =>
            LET order == sort_steps_by_dependencies(steps).sorted
            IN  /\ pc = "done"
                /\ k = Len(StepsExecuted)
                /\ k <= Len(order)
                /\ \A j \in 1..k : StepsExecuted[j].step_id = steps[order[j]].id
                /\ \A j \in 1..(k - 1) : Settled(StepsExecuted[j])
                /\ Len(invoked) > 0 /\ invoked[Len(invoked)].step = StepsExecuted[k].step_id
                /\ Exec.status = "Failed"
                /\ StepsExecuted[k].error_message # None
                /\ Exec.error_message = StepsExecuted[k].error_message
                /\ Returned /\ ~result[1].ok

\* A -> B -> C where B's command fails: A Completed, B Failed, C never appears
C5_Witness ==
    /\ pc = "done"
    /\ Len(steps) = 3
    /\ steps[1].depends_on = << >>
    /\ steps[2].depends_on = << steps[1].id >>
    /\ steps[3].depends_on = << steps[2].id >>
    /\ Len(StepsExecuted) = 2
    /\ StepsExecuted[1].step_id = steps[1].id /\ StepsExecuted[1].status = "Completed"
    /\ StepsExecuted[2].step_id = steps[2].id /\ StepsExecuted[2].status = "Failed"
    /\ InvocationsOf(steps[3].id) = << >>
    /\ Exec.status = "Failed"

(***************************************************************************)
(* C6: once step execution has begun, execute_workflow persists the        *)
(* execution record whatever the outcome: when a step ends Failed, a       *)
(* record with status Failed, the partial StepExecution list and the       *)
(* failing step's error message is written before the error is returned.   *)
(***************************************************************************)
C6_FailedRunIsPersisted ==
    (Returned /\ \E k \in 1..Len(StepsExecuted) : StepsExecuted[k].status = "Failed") =>
        \E n \in 1..Len(Saved) :
            /\ Saved[n].status = "Failed"
            /\ Saved[n].steps_executed = StepsExecuted
            /\ Saved[n].error_message = StepsExecuted[Len(StepsExecuted)].error_message

(***************************************************************************)
(* C7 as stated: if every step of a valid workflow ends Completed or       *)
(* Skipped, execute_workflow returns a WorkflowExecution with status       *)
(* Completed and a completion timestamp, whose steps_executed has exactly  *)
(* one StepExecution per step in the resolved order, and that record is    *)
(* persisted exactly once; a Skipped step neither stops the run nor keeps  *)
(* its dependents from executing.  A save that fails breaks it: the error  *)
(* of the save is what execute_workflow returns, and no record exists, or  *)
(* one that is cut off.                                                    *)
(***************************************************************************)
C7_Original ==
    /\ (ValidWorkflow(steps) /\ execution # None /\ pc = "done"
            /\ \A k \in 1..Len(StepsExecuted) : StepsExecuted[k].status # "Failed") =>
          LET order == sort_steps_by_dependencies(steps).sorted
          IN  /\ Returned /\ result[1].ok
              /\ result[1].val.status = "Completed"
              /\ result[1].val.completed_at # None
              /\ Len(result[1].val.steps_executed) = Len(steps)
              /\ \A j \in 1..Len(steps) :
                    /\ result[1].val.steps_executed[j].step_id = steps[order[j]].id
                    /\ Settled(result[1].val.steps_executed[j])
              /\ Saved = << result[1].val >>
              /\ Len(records) = 1
    \* a run that has not failed is never stopped early
    /\ (ValidWorkflow(steps) /\ execution # None /\ pc = "done"
            /\ Len(StepsExecuted) < Len(steps)) =>
          StepsExecuted[Len(StepsExecuted)].status = "Failed"

(***************************************************************************)
(* C7, amended: if every step of a valid workflow ends Completed or        *)
(* Skipped, the execution is marked Completed with a completion timestamp  *)
(* and its steps_executed has exactly one StepExecution per step in the    *)
(* resolved order.  When the execution record can be written,              *)
(* execute_workflow returns that execution and the record is persisted     *)
(* exactly once; when writing it fails, execute_workflow returns the error *)
(* of the write and no record is persisted: there is no file of the run,   *)
(* or one that holds a cut-off record which get_execution cannot read.  A  *)
(* Skipped step neither stops the run nor keeps its dependents from        *)
(* executing.                                                              *)
(***************************************************************************)
C7_CompletedRun ==
    /\ (ValidWorkflow(steps) /\ execution # None /\ pc = "done"
            /\ \A k \in 1..Len(StepsExecuted) : StepsExecuted[k].status # "Failed") =>
          LET order == sort_steps_by_dependencies(steps).sorted
          IN  /\ Returned
              /\ Exec.status = "Completed"
              /\ Exec.completed_at # None
              /\ Len(StepsExecuted) = Len(steps)
              /\ \A j \in 1..Len(steps) :
                    /\ StepsExecuted[j].step_id = steps[order[j]].id
                    /\ Settled(StepsExecuted[j])
              /\ IF result[1].ok
                 THEN /\ result[1].val = Exec
                      /\ records = << RecordFile(Exec, TRUE) >>
                      /\ get_execution = Ok(Some(Exec))
                 ELSE /\ result[1] \in CreateOutcomes \cup WriteOutcomes
                      /\ Saved = << >>
                      /\ Len(records) <= 1
                      /\ IF records = << >>
                         THEN get_execution = Ok(None)
                         ELSE ~get_execution.ok
    \* a run that has not failed is never stopped early
    /\ (ValidWorkflow(steps) /\ execution # None /\ pc = "done"
            /\ Len(StepsExecuted) < Len(steps)) =>
          StepsExecuted[Len(StepsExecuted)].status = "Failed"

\* a completed run in which the second step depends on a skipped first step
C7_Witness ==
    /\ pc = "done"
    /\ Returned /\ result[1].ok
    /\ Len(steps) = 2
    /\ steps[2].depends_on = << steps[1].id >>
    /\ StepsExecuted[1].step_id = steps[1].id /\ StepsExecuted[1].status = "Skipped"
    /\ StepsExecuted[2].step_id = steps[2].id /\ StepsExecuted[2].status = "Completed"
    /\ records = << RecordFile(Exec, TRUE) >>

(***************************************************************************)
(* C8: retry exhaustion.  For a step that passes its condition gate, has   *)
(* effective max-retries R and whose command fails on every attempt,       *)
(* execute_step invokes the command exactly R+1 times and returns a        *)
(* StepExecution with status Failed, retry_count = R and the error message *)
(* of the last attempt.                                                    *)
(***************************************************************************)
AllFailed(inv) == \A n \in 1..Len(inv) : ~inv[n].outcome.ok

C8_RetryExhaustion ==
    \A id \in DeclaredIds(steps) :
        LET inv == InvocationsOf(id)
            R == MaxRetriesOf(id)
        IN  /\ Len(inv) <= R + 1
            \* every attempt so far failed: the step is still in its retry loop
            \* until the attempt with index R has failed
            /\ (inv # << >> /\ AllFailed(inv) /\ Len(inv) < R + 1) =>
                  (ReturnedFor(id) = {} /\ pc = "attempt" /\ CurrentStep.id = id)
            /\ (AllFailed(inv) /\ Len(inv) = R + 1) =>
                  \E k \in ReturnedFor(id) :
                      /\ StepsExecuted[k].status = "Failed"
                      /\ StepsExecuted[k].retry_count = R
                      /\ StepsExecuted[k].error_message = Some(inv[R + 1].outcome.val)
            /\ \A k \in ReturnedFor(id) :
                  StepsExecuted[k].status = "Failed" =>
                      (AllFailed(inv) /\ Len(inv) = R + 1)

\* retry_count = 2 on the step (the default differs): three failed invocations,
\* the last with another error than the one before
C8_Witness ==
    /\ steps[1].retry_count = Some(2)
    /\ retry_attempts # 2
    /\ Len(InvocationsOf(steps[1].id)) = 3
    /\ invoked[2].outcome # invoked[3].outcome
    /\ Len(StepsExecuted) = 1
    /\ StepsExecuted[1].status = "Failed"
    /\ StepsExecuted[1].retry_count = 2
    /\ StepsExecuted[1].error_message = Some(invoked[3].outcome.val)

(***************************************************************************)
(* C9: retry recovery.  If a step's command first succeeds at attempt      *)
(* index k, 0 <= k <= R, execute_step returns at once with status          *)
(* Completed, retry_count = k and output equal to that attempt's captured  *)
(* text, and the command is invoked exactly k+1 times, never again after   *)
(* the first success.                                                      *)
(***************************************************************************)
C9_RetryRecovery ==
    \A id \in DeclaredIds(steps) :
        LET inv == InvocationsOf(id)
        IN  /\ \A n \in 1..Len(inv) :
                  inv[n].outcome.ok =>
                      /\ n = Len(inv)
                      /\ n - 1 <= MaxRetriesOf(id)
                      /\ AllFailed(SubSeq(inv, 1, n - 1))
                      /\ \E k \in ReturnedFor(id) :
                            /\ StepsExecuted[k].status = "Completed"
                            /\ StepsExecuted[k].retry_count = n - 1
                            /\ StepsExecuted[k].output = Some(inv[n].outcome.val)
            /\ \A k \in ReturnedFor(id) :
                  StepsExecuted[k].status = "Completed" =>
                      (inv # << >> /\ inv[Len(inv)].outcome.ok)

\* the first attempt fails, the second succeeds: Completed with retry_count 1
C9_Witness ==
    /\ Len(invoked) = 2
    /\ ~invoked[1].outcome.ok
    /\ invoked[2].outcome.ok
    /\ MaxRetriesOf(steps[1].id) = 2
    /\ Len(StepsExecuted) = 1
    /\ StepsExecuted[1].status = "Completed"
    /\ StepsExecuted[1].retry_count = 1
    /\ StepsExecuted[1].output = Some(invoked[2].outcome.val)

(***************************************************************************)
(* C10: in every state of a step's execution and in every returned         *)
(* StepExecution, retry_count is at most the step's effective              *)
(* max-retries: its retry_count override when present, otherwise the       *)
(* configuration's retry_attempts.                                         *)
(***************************************************************************)
C10_RetryCountBounded ==
    /\ step_execution # None =>
          StepExec.retry_count <= MaxRetriesOf(StepExec.step_id)
    /\ \A k \in 1..Len(StepsExecuted) :
          StepsExecuted[k].retry_count <= MaxRetriesOf(StepsExecuted[k].step_id)
    /\ \A n \in 1..Len(Saved) :
          \A k \in 1..Len(Saved[n].steps_executed) :
              Saved[n].steps_executed[k].retry_count
                  <= MaxRetriesOf(Saved[n].steps_executed[k].step_id)

\* the step's override (1) is below the default (2): the returned StepExecution
\* has used the override up
C10_Witness ==
    /\ steps[1].retry_count = Some(1)
    /\ retry_attempts = 2
    /\ Len(invoked) = 2
    /\ Len(StepsExecuted) = 1
    /\ StepsExecuted[1].retry_count = 1

(***************************************************************************)
(* The condition gate of execute_step, on a one-step workflow.             *)
(***************************************************************************)
\* the strings the substitution loop can leave, one per iteration order
SubstitutedValues(condition, vs) ==
    { substitute(condition, vs, o, 1) : o \in IterationOrders(DOMAIN vs) }

IsTrueString(s) ==
    /\ Len(s) = 4
    /\ s[1] \in { "t", "T" } /\ s[2] \in { "r", "R" }
    /\ s[3] \in { "u", "U" } /\ s[4] \in { "e", "E" }

HasMarker(step) == step.condition # None /\ Contains(step.condition[1], "$")

\* the gate lets the step through, whatever order the variables are taken in
GateOpen(step, vs) ==
    \/ ~HasMarker(step)
    \/ \A s \in SubstitutedValues(step.condition[1], vs) : IsTrueString(s)

\* the gate stops the step, whatever order the variables are taken in
GateShut(step, vs) ==
    /\ HasMarker(step)
    /\ \A s \in SubstitutedValues(step.condition[1], vs) : ~IsTrueString(s)

\* C11: a step whose condition has a variable marker and whose substituted
\* condition is not "true" (in any letter case) gets a Skipped StepExecution,
\* with no command invocation and retry_count 0, straight from the
\* construction of the StepExecution; a step whose substituted condition is
\* "true", or whose condition has no marker, or that has no condition, is
\* never Skipped: it runs, and returns only after an invocation.
C11_ConditionGate ==
    /\ [](step_execution # None =>
            /\ GateShut(steps[1], variables) =>
                   /\ StepExec.status = "Skipped"
                   /\ StepExec.completed_at # None
            /\ StepExec.status = "Skipped" =>
                   /\ ~GateOpen(steps[1], variables)
                   /\ invoked = << >>
                   /\ sleeps = << >>
                   /\ StepExec.retry_count = 0
                   /\ StepExec.output = None
            /\ GateOpen(steps[1], variables) =>
                   /\ StepExec.status \in { "Running", "Completed", "Failed" }
                   /\ StepExec.status # "Running" => Len(invoked) >= 1)
    /\ [][(step_execution' # None /\ step_execution'[1].status = "Skipped")
            => (step_execution = None \/ step_execution' = step_execution)]_vars

\* the variable f is "false", the condition is "$f": the step was skipped and
\* the run finished without any invocation
C11_Witness ==
    /\ steps[1].condition = Some(<< "$" >> \o Str_f)
    /\ variables = (Str_f :> Str_false)
    /\ step_execution # None
    /\ StepExec.status = "Skipped"
    /\ invoked = << >>
    /\ pc = "done"

(***************************************************************************)
(* The timeout of one command invocation.                                  *)
(***************************************************************************)
\* step timeout override, else config.timeout_seconds
EffectiveTimeoutOf(step) ==
    IF step.timeout = None THEN timeout_seconds ELSE step.timeout[1]

\* the error of tokio::time::timeout when the deadline passes first
TimeoutError == Err("deadline has elapsed")

\* C12: an invocation whose command does not complete within the effective
\* timeout is a failed attempt with a timeout error, and the wait for the
\* command ends at the deadline.
C12_TimeoutFailsTheAttempt ==
    \A n \in 1..Len(invoked) :
        invoked[n].secs > EffectiveTimeoutOf(steps[1]) =>
            /\ invoked[n].outcome = TimeoutError
            /\ invoked[n].waited = EffectiveTimeoutOf(steps[1])

(***************************************************************************)
(* The order in which the steps of one execution run.                      *)
(***************************************************************************)
\* the ids of the steps in the order the scheduler produces for the workflow
ScheduledIds(all_steps) ==
    LET sorted == sort_steps_by_dependencies(all_steps).sorted
    IN  [p \in 1..Len(sorted) |-> all_steps[sorted[p]].id]

IndexOf(seq, x) ==
    IF \E p \in 1..Len(seq) : seq[p] = x
    THEN CHOOSE p \in 1..Len(seq) : seq[p] = x
    ELSE 0

\* C13: the steps of one execution run one after another in the scheduler's
\* order: the StepExecutions appended so far are those of the first steps of
\* that order, each terminal; a step is invoked only when every step before
\* it in the order has its StepExecution appended, and the only step that
\* can be in progress is the one after them.
C13_StepsOneAfterAnother ==
    execution # None =>
        LET order == ScheduledIds(steps)
            done == Len(StepsExecuted)
        IN  /\ done <= Len(order)
            /\ \A j \in 1..done :
                  /\ StepsExecuted[j].step_id = order[j]
                  /\ StepsExecuted[j].status \in { "Completed", "Failed", "Skipped" }
            /\ \A n \in 1..Len(invoked) :
                  LET k == IndexOf(order, invoked[n].step)
                  IN  /\ k >= 1
                      /\ k <= done + 1
                      /\ k = done + 1 =>
                            (pc = "attempt" /\ StepExec.step_id = invoked[n].step)
                      /\ \A m \in 1..(n - 1) : IndexOf(order, invoked[m].step) <= k
            /\ pc = "attempt" =>
                  /\ done < Len(order)
                  /\ StepExec.step_id = order[done + 1]

\* the first declared step depends on the second: the second ran first, its
\* StepExecution is appended, and the first is being invoked
C13_Witness ==
    /\ Len(steps) = 2
    /\ steps[1].depends_on = << steps[2].id >>
    /\ Len(invoked) = 2
    /\ invoked[1].step = steps[2].id
    /\ invoked[2].step = steps[1].id
    /\ Len(StepsExecuted) = 1
    /\ pc = "attempt"

(***************************************************************************)
(* The Task Registry and the concurrency limiter.                          *)
(***************************************************************************)
WithStatus(status) == { id \in DOMAIN active_tasks : active_tasks[id].status = status }

Submitted == { t \in TaskIds : tasks[t].pc # "idle" }

\* C14: whatever the number of submitted tasks and the interleaving of their
\* calls with cancel_task and cleanup, the number of registry entries with
\* status Running never exceeds max_concurrent_workflows.
C14_RunningBounded ==
    Cardinality(WithStatus("Running")) <= max_concurrent_workflows

\* more tasks submitted than there are permits: max_concurrent_workflows
\* entries are Running, the entry of the call in the semaphore's queue is
\* Pending
C14_Witness ==
    /\ max_concurrent_workflows >= 1
    /\ Cardinality(Submitted) > max_concurrent_workflows
    /\ Cardinality(WithStatus("Running")) = max_concurrent_workflows
    /\ Cardinality(WithStatus("Pending")) = 1
    /\ Len(waiters) = 1

\* the calls that hold a permit: from the acquisition to the return
Holding == { t \in TaskIds : tasks[t].pc \in { "acquired", "delegate", "marked" } }

\* the calls whose delegate is running
InDelegate == { t \in TaskIds : tasks[t].pc = "delegate" }

\* C15: upload and workflow tasks share one limiter of
\* max_concurrent_workflows permits (4 in the default configuration): the
\* calls of both kinds that are in their delegate phase never outnumber the
\* permits, and the available permits plus the permits held make up the
\* configured number.
C15_SharedLimiter ==
    /\ default_max_concurrent_workflows = 4
    /\ Cardinality(InDelegate) <= max_concurrent_workflows
    /\ permits >= 0
    /\ permits + Cardinality(Holding) = max_concurrent_workflows

\* every permit is held by a call in its delegate phase, and a call of the
\* other kind waits for one
C15_Witness ==
    /\ max_concurrent_workflows >= 1
    /\ permits = 0
    /\ Cardinality(InDelegate) = max_concurrent_workflows
    /\ Len(waiters) = 1
    /\ \E t \in InDelegate : tasks[t].task_type # tasks[Head(waiters)].task_type

(***************************************************************************)
(* The life cycle of a registry entry.                                     *)
(***************************************************************************)
\* the position of a status along Pending -> Running -> terminal
Rank(status) ==
    CASE status = "Pending" -> 0
      [] status = "Running" -> 1
      [] OTHER -> 2

\* the entries present before and after a step
Kept == { id \in TaskIds : id \in DOMAIN active_tasks /\ id \in DOMAIN active_tasks' }

\* C16: the status of every registry entry only moves forward along
\* Pending -> Running -> {Completed, Failed, Cancelled}: no step of any
\* operation takes an entry back to an earlier status, in particular not from
\* Cancelled to Running.
C16_StatusMovesForward ==
    [][\A id \in Kept :
          Rank(active_tasks'[id].status) >= Rank(active_tasks[id].status)]_vars

\* C17: Completed, Failed and Cancelled are terminal: an entry that has one of
\* them keeps that status under every later operation.
C17_TerminalStatusIsKept ==
    [][\A id \in Kept :
          active_tasks[id].status \in Terminal =>
              active_tasks'[id].status = active_tasks[id].status]_vars

(***************************************************************************)
(* Permits and results of the calls.                                       *)
(***************************************************************************)
\* the calls that were made and have not returned
InFlight == { t \in TaskIds : tasks[t].pc \notin { "idle", "returned" } }

Returned_calls == { t \in TaskIds : tasks[t].pc = "returned" }

\* C18: a permit is out of the semaphore exactly while the call that acquired
\* it has not returned, whatever the delegate returned and whether or not the
\* entry was cancelled or removed meanwhile; when no call is in flight all
\* max_concurrent_workflows permits are available and nobody waits.
C18_NoPermitLeak ==
    /\ max_concurrent_workflows - permits = Cardinality(Holding)
    /\ Holding \cap Returned_calls = { }
    /\ InFlight = { } => (permits = max_concurrent_workflows /\ waiters = << >>)

\* one permit, every call made and returned: a delegate failed, an entry is
\* Cancelled, an entry was removed by cleanup; the permit is available again
C18_Witness ==
    /\ max_concurrent_workflows = 1
    /\ Returned_calls = TaskIds
    /\ \E t \in TaskIds : ~tasks[t].result[1].ok
    /\ \E t \in TaskIds : Tracked(t) /\ active_tasks[t].status = "Cancelled"
    /\ \E t \in TaskIds : ~Tracked(t)
    /\ permits = 1

\* the step of call t in which its delegate returns
DelegateReturned(t) == tasks[t].pc = "delegate" /\ tasks'[t].pc = "marked"

\* the step in which call t returns to its caller
CallReturns(t) == tasks[t].pc = "marked" /\ tasks'[t].pc = "returned"

\* C19: when the delegate of a call returns an error, the call's registry
\* entry (if the registry still has it) becomes Failed with the error's text
\* as error_message and the current time as completion timestamp, and the
\* call returns that error; when the delegate succeeds the entry becomes
\* Completed with no error message and a completion timestamp, and the call
\* returns Ok.
C19_DelegateResultRecorded ==
    [][\A t \in TaskIds :
          /\ DelegateReturned(t) =>
                LET r == tasks'[t].result[1]
                IN  /\ r \in DelegateResults(tasks[t].task_type)
                    /\ DOMAIN active_tasks' = DOMAIN active_tasks
                    /\ Tracked(t) =>
                          /\ active_tasks'[t].status =
                                IF r.ok THEN "Completed" ELSE "Failed"
                          /\ active_tasks'[t].error_message =
                                IF r.ok THEN None ELSE Some(r.val.msg)
                          /\ active_tasks'[t].completed_at = Some(now)
          /\ CallReturns(t) =>
                LET r == tasks[t].result[1]
                    returned == map_unit(tasks'[t].result[1])
                IN  IF r.ok THEN returned = Ok("()") ELSE returned = Err(r.val)]_vars

\* a workflow call returned the engine's error and its entry is Failed with
\* the error's text; an upload call returned Ok and its entry is Completed
C19_Witness ==
    \E t, u \in Returned_calls :
        /\ tasks[t].result = Some(Err([msg |-> "Step failed"]))
        /\ Tracked(t)
        /\ active_tasks[t].status = "Failed"
        /\ active_tasks[t].error_message = Some("Step failed")
        /\ active_tasks[t].completed_at # None
        /\ tasks[u].result = Some(Ok("upload"))
        /\ Tracked(u)
        /\ active_tasks[u].status = "Completed"
        /\ active_tasks[u].error_message = None

(***************************************************************************)
(* cancel_task.                                                            *)
(***************************************************************************)
\* C20: cancel_task on a tracked id changes that entry's status to Cancelled
\* and its completion timestamp to the current time and nothing else: the
\* other fields of the entry, the other entries, the permits, the queue and
\* every call (the cancelled task's delegate goes on and keeps its permit)
\* are as before; on an untracked id the registry is unchanged too; the call
\* returns Ok in both cases.
C20_CancelIsBookkeeping ==
    [][\A task_id \in TaskIds :
          cancel_task(task_id) =>
              /\ cancel_task_returns(task_id) = Ok("()")
              /\ permits' = permits
              /\ waiters' = waiters
              /\ tasks' = tasks
              /\ DOMAIN active_tasks' = DOMAIN active_tasks
              /\ \A id \in DOMAIN active_tasks :
                    IF id = task_id
                    THEN active_tasks'[id] =
                            [active_tasks[id] EXCEPT !.status = "Cancelled",
                                                     !.completed_at = Some(now)]
                    ELSE active_tasks'[id] = active_tasks[id]]_vars

\* the entry of a call whose delegate is running was cancelled: the call is
\* still in its delegate and holds its permit, another entry is still Running
C20_Witness ==
    \E t, u \in InDelegate :
        /\ Tracked(t) /\ Tracked(u)
        /\ active_tasks[t].status = "Cancelled"
        /\ active_tasks[t].completed_at = Some(now)
        /\ active_tasks[t].started_at # None
        /\ active_tasks[u].status = "Running"
        /\ permits = max_concurrent_workflows - 2

(***************************************************************************)
(* cleanup_completed_tasks.                                                *)
(***************************************************************************)
\* a terminal entry whose completion timestamp is more than 24 hours (1440
\* minutes) before the instant `at`
CompletedOver24hAgo(task, at) ==
    /\ task.status \in Terminal
    /\ task.completed_at # None
    /\ at - task.completed_at[1] > 24 * 60

\* the entries a step takes out of the registry
Removed == DOMAIN active_tasks \ DOMAIN active_tasks'

\* the position and to_remove of the scan of the call `c` after a step
PassedAfter(c) == IF CleanupPhase(c)' = "scan" THEN cleanup'[c][1].passed ELSE TaskIds
ToRemoveAfter(c) == cleanup'[c][1].to_remove

\* a step of the scan of `c` that goes through the part of the map holding `id`
ScanVisits(c, id) ==
    /\ CleanupScan(c)
    /\ id \notin ScanPassed(c)
    /\ PassedAfter(c) = ScanPassed(c) \cup { id }

\* id is on the Vec
OnVec(id, vec) == \E n \in 1..Len(vec) : vec[n] = id

\* C21: a sweep selects for removal every entry it comes to that is terminal
\* and was completed more than 24 hours before (24 hours 30 minutes, say),
\* each iteration of its removal loop takes exactly one selected entry out of
\* the registry, and the count it reports is the number of entries it removed.
C21_CleanupRemovesOldEntries ==
    [][\A c \in Sweeps :
         /\ \A id \in TaskIds :
               ScanVisits(c, id) =>
                   /\ (Tracked(id) /\ CompletedOver24hAgo(active_tasks[id], now)) =>
                          OnVec(id, ToRemoveAfter(c))
                   /\ CleanupPhase(c)' # "scan" =>
                          cleanup'[c][1].removed_count = Len(cleanup'[c][1].to_remove)
         /\ CleanupRemove(c) =>
               /\ Removed = { Head(cleanup[c][1].to_remove) }
               /\ cleanup'[c][1].to_remove = Tail(cleanup[c][1].to_remove)
               /\ cleanup'[c][1].removed_count = cleanup[c][1].removed_count
         /\ CleanupReport(c) =>
               /\ cleanup[c][1].to_remove = << >>
               /\ reported' = Some(cleanup[c][1].removed_count)]_vars

\* C22: whatever interleaves with a sweep, an entry taken out of the registry
\* is, at the moment of its removal, neither Pending nor Running, and its
\* completion timestamp is not less than 24 hours (1440 minutes) in the past.
C22_CleanupKeepsLiveAndRecentEntries ==
    [][\A id \in Removed :
          /\ active_tasks[id].status \notin { "Pending", "Running" }
          /\ active_tasks[id].completed_at # None =>
                now - active_tasks[id].completed_at[1] >= 24 * 60]_vars

\* the second of the caller's two runs is going on or has returned
SecondRun == twice.at = "second"
SecondRunReturned == SecondRun /\ CleanupPhase(1) = "idle"

\* C23 as stated: when cleanup_completed_tasks is run twice in succession,
\* with no other operation and no passage of time between the return of the
\* first run and the return of the second, the second run removes nothing and
\* leaves the registry exactly as the first run left it.  A first run during
\* which the clock moves on breaks it: the clock is read once per entry (line
\* 180), so the first run can keep an entry it judged before its 25th hour
\* and remove one it judged after, and the second run removes the first.
C23_Original ==
    SecondRun => active_tasks = twice.left

\* C23, amended: when cleanup_completed_tasks is run twice in succession,
\* with no other operation between the two runs and no passage of time from
\* the call of the first run to the return of the second, the second run
\* removes nothing, leaves the registry exactly as the first run left it and
\* reports 0.
C23_CleanupIdempotent ==
    (SecondRun /\ now = twice.called_at) =>
        /\ active_tasks = twice.left
        /\ SecondRunReturned => reported = Some(0)

\* the first run, called at the 25th hour of a cancelled call's entry,
\* removed that entry; the second run, at the same instant, has returned:
\* the other entry is still in the registry
C23_Witness ==
    /\ SecondRunReturned
    /\ now = twice.called_at
    /\ now = 1500
    /\ \E t \in Submitted : ~Tracked(t)
    /\ \E u \in Submitted : Tracked(u)

(***************************************************************************)
(* The waits between the attempts of a step.                               *)
(***************************************************************************)
\* no wait follows the last attempt of a step: while the step is in its retry
\* loop every attempt made so far was followed by a wait, and once it has
\* returned every attempt but the last was
WaitsBetweenAttemptsOnly ==
    /\ pc = "attempt" => (Len(sleeps) = attempt /\ Len(invoked) = attempt)
    /\ (pc # "attempt" /\ invoked # << >>) => Len(sleeps) = Len(invoked) - 1

\* C24 as stated: the wait before retry attempt k is 2^k seconds (2, 4, 8, ...),
\* and no wait follows the final failed attempt.
C24_Original ==
    /\ \A k \in 1..Len(sleeps) : sleeps[k].secs = 2 ^ k
    /\ WaitsBetweenAttemptsOnly

\* C24, amended: the wait before retry attempt k (k >= 1) of a step is
\* 2^(k-1) seconds, the exponent being the index of the attempt that just
\* failed, so the waits before retries 1, 2, 3 are 1, 2 and 4 seconds; and no
\* wait follows the final failed attempt.
C24_Backoff ==
    /\ \A k \in 1..Len(sleeps) : sleeps[k].secs = 2 ^ (k - 1)
    /\ WaitsBetweenAttemptsOnly

\* a step with two retries failed all three attempts and returned: it waited
\* 1 second before the first retry, 2 before the second, and not after the third
\* attempt
C24_Witness ==
    /\ Len(invoked) = 3
    /\ AllFailed(invoked)
    /\ pc # "attempt"
    /\ StepsExecuted # << >>
    /\ StepsExecuted[1].status = "Failed"
    /\ Len(sleeps) = 2
    /\ sleeps[1].secs = 1
    /\ sleeps[2].secs = 2

(***************************************************************************)
(* A call from its submission to its delegate.                             *)
(***************************************************************************)
\* the calls that have inserted their entry and have not yet set it to Running:
\* before the acquisition, in the semaphore's queue, or just resumed with a
\* permit
BeforeRunning == { t \in TaskIds : tasks[t].pc \in { "inserted", "queued", "acquired" } }

\* the steps of call t
CallSubmits(t) == tasks[t].pc = "idle" /\ tasks'[t].pc # "idle"
CallAcquires(t) == tasks[t].pc # "acquired" /\ tasks'[t].pc = "acquired"
CallStartsDelegate(t) == tasks[t].pc # "delegate" /\ tasks'[t].pc = "delegate"

\* the entry of t is set to Running or given a start timestamp
EntryStarted(t) ==
    /\ t \in Kept
    /\ \/ active_tasks[t].status # "Running" /\ active_tasks'[t].status = "Running"
       \/ active_tasks'[t].started_at # active_tasks[t].started_at

\* the order of the steps of a call: the entry is inserted Pending with no
\* start timestamp before anything is asked of the semaphore; a call gets to
\* hold a permit by taking an available one or by being handed the one of a
\* returning call at the head of the queue; the entry is set to Running, with
\* a start timestamp, in the step between the acquisition and the delegate and
\* in no other; the delegate starts only from a call that holds a permit
SubmissionSteps ==
    \A t \in TaskIds :
        /\ CallSubmits(t) =>
              /\ tasks'[t].pc = "inserted"
              /\ t \in DOMAIN active_tasks'
              /\ active_tasks'[t].status = "Pending"
              /\ active_tasks'[t].started_at = None
              /\ permits' = permits /\ waiters' = waiters
        /\ CallAcquires(t) =>
              \/ tasks[t].pc = "inserted" /\ permits > 0 /\ permits' = permits - 1
              \/ /\ tasks[t].pc = "queued" /\ waiters # << >> /\ Head(waiters) = t
                 /\ permits' = permits
                 /\ \E u \in TaskIds : CallReturns(u)
        /\ CallStartsDelegate(t) =>
              /\ tasks[t].pc = "acquired"
              /\ permits' = permits
              /\ t \in Kept =>
                    /\ active_tasks'[t].status = "Running"
                    /\ active_tasks'[t].started_at # None
        /\ EntryStarted(t) =>
              /\ CallStartsDelegate(t)
              /\ active_tasks'[t].status = "Running"
              /\ active_tasks'[t].started_at # None

\* a call that is not yet submitted has no entry; the delegates that run never
\* outnumber the permits taken out of the semaphore
SubmissionState ==
    /\ \A t \in TaskIds : tasks[t].pc = "idle" => ~Tracked(t)
    /\ Cardinality(InDelegate) <= max_concurrent_workflows - permits
    /\ \A n \in 1..Len(waiters) : tasks[waiters[n]].pc = "queued"

\* C25 as stated: the entry of a submitted call is in the registry, Pending and
\* without a start timestamp, from its insertion until the call, holding a
\* permit, sets it to Running.
C25_Original ==
    /\ [](/\ SubmissionState
          /\ \A t \in BeforeRunning :
                /\ Tracked(t)
                /\ active_tasks[t].status = "Pending"
                /\ active_tasks[t].started_at = None)
    /\ [][SubmissionSteps]_vars

\* C25, amended: a submitted task is inserted into the registry with status
\* Pending and no start timestamp before it tries to acquire a permit; until
\* the call, holding a permit, sets it to Running the entry has no start
\* timestamp and is Pending unless cancel_task has set it to Cancelled (a
\* Cancelled entry may then be removed by cleanup); the entry is set to
\* Running with a start timestamp only after the call acquired a permit and
\* before its delegate is called; the delegate is never called for a task
\* that holds no permit.
C25_PendingUntilPermit ==
    /\ [](/\ SubmissionState
          /\ \A t \in BeforeRunning :
                Tracked(t) =>
                    /\ active_tasks[t].status \in { "Pending", "Cancelled" }
                    /\ active_tasks[t].started_at = None)
    /\ [][SubmissionSteps]_vars

\* one call runs its delegate with the only permit, its entry Running with a
\* start timestamp; the other waits in the queue, its entry Pending without one
C25_Witness ==
    \E t, u \in TaskIds :
        /\ tasks[t].pc = "delegate"
        /\ Tracked(t)
        /\ active_tasks[t].status = "Running"
        /\ active_tasks[t].started_at # None
        /\ tasks[u].pc = "queued"
        /\ waiters = << u >>
        /\ Tracked(u)
        /\ active_tasks[u].status = "Pending"
        /\ active_tasks[u].started_at = None
        /\ permits = 0

(***************************************************************************)
(* Who removes registry entries.                                           *)
(***************************************************************************)
\* a step of process_upload / execute_workflow for call t, or of cancel_task
\* on its id
CallOrCancelStep(t) ==
    \/ Submit(t, TaskTypeOf(t))
    \/ Acquire(t)
    \/ MarkRunning(t)
    \/ DelegateReturns(t)
    \/ Return(t)
    \/ cancel_task(t)

\* the entry of a call that was submitted is gone
Swept(t) == tasks[t].pc # "idle" /\ ~Tracked(t)

\* C26: registry entries are removed only by cleanup_completed_tasks: a step
\* that takes an entry out is an iteration of the sweep's removal loop; no
\* step of process_upload, execute_workflow, cancel_task or list_active_tasks
\* removes one (get_task_status is a function of the registry); and an entry
\* that cleanup removed stays out under every later step, the return of the
\* task's delegate included: get_task_status returns None for it and
\* list_active_tasks, coming to its place, finds nothing to copy.
C26_OnlyCleanupRemoves ==
    [][/\ Removed # { } =>
             \E c \in Sweeps :
                 CleanupRemove(c) /\ Removed = { Head(cleanup[c][1].to_remove) }
       /\ Removed # { } => \A t \in TaskIds : ~CallOrCancelStep(t)
       /\ active_tasks' # active_tasks => ~list_active_tasks
       /\ \A t \in TaskIds :
             Swept(t) =>
                 /\ Swept(t)'
                 /\ get_task_status(t)' = None
                 /\ CloneEntry(t, ListCopies)' = ListCopies']_vars

\* cleanup removed the entries of two cancelled calls: one has returned since,
\* the delegate of the other is still running; neither entry is back
C26_Witness ==
    \E t, u \in TaskIds :
        /\ tasks[t].pc = "returned"
        /\ tasks[u].pc = "delegate"
        /\ ~Tracked(t)
        /\ ~Tracked(u)
        /\ reported # None

(***************************************************************************)
(* The variables of a run.                                                 *)
(***************************************************************************)
\* the declared step a StepExecution belongs to (step ids are unique)
StepOf(se) == steps[FindStep(steps, se.step_id)]

\* C27: the variable mapping of a WorkflowExecution is the workflow's at every
\* point of the run and in its saved record, whatever the steps returned and
\* whether or not a step names an output variable: the environment of every
\* command invocation is made of the workflow's variables, and every step was
\* gated (skipped or let through) as its condition evaluates under the
\* workflow's variables, not under an earlier step's output.
C27_VariablesAreReadOnly ==
    /\ execution # None => Exec.variables = variables
    /\ \A n \in 1..Len(Saved) : Saved[n].variables = variables
    /\ \A n \in 1..Len(invoked) : invoked[n].env = variables
    /\ \A j \in 1..Len(StepsExecuted) :
          LET se == StepsExecuted[j]
          IN  /\ se.status = "Skipped" => GateShut(StepOf(se), variables)
              /\ se.status # "Skipped" => GateOpen(StepOf(se), variables)

\* step "a", which names the output variable "f", completed with captured
\* output; the step after it, whose condition is "$f", was skipped because the
\* workflow's f is "false", and the run's f is still "false"
C27_Witness ==
    /\ Len(StepsExecuted) >= 2
    /\ StepsExecuted[1].step_id = "a"
    /\ StepOf(StepsExecuted[1]).output = Some(Str_f)
    /\ StepsExecuted[1].status = "Completed"
    /\ StepsExecuted[1].output # None
    /\ StepOf(StepsExecuted[2]).condition = Some(<< "$" >> \o Str_f)
    /\ StepsExecuted[2].status = "Skipped"
    /\ Exec.variables[Str_f] = Str_false

(***************************************************************************)
(* The order of independent steps in the scheduler's output.               *)
(***************************************************************************)
\* the steps i and j (indices of declaration) are independent: neither
\* transitively depends on the other
Independent(all_steps, i, j) ==
    /\ all_steps[j].id \notin TransitiveDeps(all_steps, all_steps[i].id)
    /\ all_steps[i].id \notin TransitiveDeps(all_steps, all_steps[j].id)

\* step k is step j or transitively depends on it
Reaches(all_steps, k, j) ==
    k = j \/ all_steps[j].id \in TransitiveDeps(all_steps, all_steps[k].id)

\* the first declared step that is step j or transitively depends on it
FirstReaching(all_steps, j) ==
    CHOOSE k \in 1..j :
        /\ Reaches(all_steps, k, j)
        /\ \A l \in 1..(k - 1) : ~Reaches(all_steps, l, j)

\* the position of declared step i in the ordering `sorted`
OutputPosition(sorted, i) == CHOOSE p \in 1..Len(sorted) : sorted[p] = i

SortedValid ==
    /\ SortReturned /\ UniqueIds(steps) /\ AllResolve(steps) /\ ~HasCycle(steps)
    /\ sort_result[1].ok

\* C28 as stated: of two independent steps, the one declared earlier appears
\* earlier in the scheduler's output.
C28_Original ==
    SortedValid =>
        \A i, j \in 1..Len(steps) :
            (i < j /\ Independent(steps, i, j)) =>
                OutputPosition(sort_result[1].sorted, i)
                    < OutputPosition(sort_result[1].sorted, j)

\* C28, amended: the output follows the declaration order of the first
\* declared steps that reach each step: a step comes out when the scan gets to
\* the first declared step that is it or transitively depends on it.  So of
\* two independent steps the one declared earlier appears earlier unless the
\* later-declared one is a transitive dependency of a step declared before the
\* earlier one.
C28_TieBreaking ==
    SortedValid =>
        LET sorted == sort_result[1].sorted
        IN  /\ \A i, j \in 1..Len(steps) :
                  FirstReaching(steps, i) < FirstReaching(steps, j) =>
                      OutputPosition(sorted, i) < OutputPosition(sorted, j)
            /\ \A i, j \in 1..Len(steps) :
                  (/\ i < j
                   /\ Independent(steps, i, j)
                   /\ \A k \in 1..(i - 1) : ~Reaches(steps, k, j)) =>
                      OutputPosition(sorted, i) < OutputPosition(sorted, j)

\* three steps: the first depends on the third, the second is independent of
\* both; the third, pulled forward by the first, comes out before the second,
\* which is declared before it; the first and the second keep their order
C28_Witness ==
    /\ SortedValid
    /\ Len(steps) = 3
    /\ steps[1].depends_on = << steps[3].id >>
    /\ steps[2].depends_on = << >>
    /\ steps[3].depends_on = << >>
    /\ sort_result[1].sorted = << 3, 1, 2 >>

(***************************************************************************)
(* What the readers of the registry see.                                   *)
(***************************************************************************)
\* a TaskInfo whose timestamps agree with its status
ConsistentCopy(copy) ==
    /\ copy.status = "Running" => copy.started_at # None
    /\ copy.status \in Terminal => copy.completed_at # None

\* the Vecs that list_active_tasks holds or is about to return
ListVecs ==
    { ListCopies } \cup
    (IF Cardinality(TaskIds \ ListPassed) = 1
     THEN { list_active_tasks_returns(id) : id \in TaskIds \ ListPassed }
     ELSE { })

\* C29: at every point of every interleaving of submissions, cancellations and
\* sweeps, the copy get_task_status returns for an id is the entry of that id
\* as the last update left it, the Vec of list_active_tasks holds at most one
\* copy per id, each taken when the call came to that entry, and every copy
\* is consistent: a Running copy has a start timestamp and a Completed,
\* Failed or Cancelled copy has a completion timestamp.
C29_ReadersSeeConsistentCopies ==
    /\ \A id \in TaskIds :
          LET copy == get_task_status(id)
          IN  IF Tracked(id)
              THEN /\ copy = Some(active_tasks[id])
                   /\ copy[1].id = id
                   /\ ConsistentCopy(copy[1])
              ELSE copy = None
    /\ \A copies \in ListVecs :
          \A n \in 1..Len(copies) :
              /\ copies[n].id \in TaskIds
              /\ ConsistentCopy(copies[n])
              /\ \A m \in 1..Len(copies) : copies[m].id = copies[n].id => m = n

\* list_active_tasks is about to return a Vec taken across updates: its first
\* copy is of a call that was Running when it was copied, with a start
\* timestamp and no completion timestamp, and whose entry has been set to a
\* terminal status since, as get_task_status shows; its second copy is
\* terminal, with a completion timestamp
C29_Witness ==
    \E id \in TaskIds \ ListPassed :
        LET copies == list_active_tasks_returns(id)
        IN  /\ TaskIds \ ListPassed = { id }
            /\ Len(copies) = 2
            /\ copies[1].status = "Running"
            /\ copies[1].started_at # None
            /\ copies[1].completed_at = None
            /\ copies[2].id = id
            /\ copies[2].status \in Terminal
            /\ copies[2].completed_at # None
            /\ get_task_status(copies[1].id) # None
            /\ get_task_status(copies[1].id)[1].status \in Terminal
            /\ get_task_status(copies[1].id)[1].completed_at # None

(***************************************************************************)
(* The StepExecution that execute_step returns.                            *)
(***************************************************************************)
\* C30: every StepExecution returned by execute_step is Completed, Failed or
\* Skipped and has a completion timestamp; a Completed one carries captured
\* output and no error message, a Failed one an error message and no output, a
\* Skipped one neither.
C30_ReturnedStepExecution ==
    \A j \in 1..Len(StepsExecuted) :
        LET se == StepsExecuted[j]
        IN  /\ se.status \in { "Completed", "Failed", "Skipped" }
            /\ se.completed_at # None
            /\ se.status = "Completed" =>
                  (se.output # None /\ se.error_message = None)
            /\ se.status = "Failed" =>
                  (se.output = None /\ se.error_message # None)
            /\ se.status = "Skipped" =>
                  (se.output = None /\ se.error_message = None)

(***************************************************************************)
(* Progress of the calls through the limiter.                              *)
(***************************************************************************)
\* the calls that have got a permit at some point: they hold it or returned
PastAcquire == { t \in TaskIds : tasks[t].pc \in { "acquired", "delegate", "marked", "returned" } }

\* C31: with at least one permit, delegates that return and the semaphore's
\* first-come queue, every submitted call eventually acquires a permit and
\* eventually returns, however many calls are submitted together and whatever
\* cancel_task and cleanup do meanwhile; no set of calls stays blocked on the
\* limiter.
C31_EveryCallReturns ==
    (max_concurrent_workflows >= 1) =>
        \A t \in TaskIds : (tasks[t].pc # "idle") ~> (tasks[t].pc = "returned")

\* more calls than permits were submitted together: one of them waited in the
\* queue behind the other's delegate and has now been handed the permit, the
\* other has returned
C31_Witness ==
    \E t, u \in TaskIds :
        /\ max_concurrent_workflows = 1
        /\ tasks[t].pc = "returned"
        /\ tasks[u].pc = "acquired"
        /\ Tracked(u)
        /\ active_tasks[u].status = "Pending"
        /\ permits = 0
        /\ waiters = << >>

(***************************************************************************)
(* The completion timestamp of an entry.                                   *)
(***************************************************************************)
\* C32: in every reachable registry state an entry has a completion timestamp
\* only if its status is terminal: a Pending or Running entry has completed_at
\* unset, also when cancel_task was called on it before its call acquired a
\* permit.
C32_CompletedAtOnlyWhenTerminal ==
    \A id \in DOMAIN active_tasks :
        active_tasks[id].status \in { "Pending", "Running" } =>
            active_tasks[id].completed_at = None

(***************************************************************************)
(* The condition gate and the order of substitution.                       *)
(***************************************************************************)
\* the results evaluate_condition can return for one condition and one variable
\* mapping, one per order in which the mapping is iterated
GateResults(condition, vs) ==
    { evaluate_condition(condition, vs, o) : o \in IterationOrders(DOMAIN vs) }

\* C33: condition evaluation is deterministic: once execute_step has evaluated
\* the condition of a step, the result it acted on (skip or pass) is the
\* result evaluate_condition returns under every order of substitution of the
\* run's variables, also when one variable name is a prefix of another.
C33_ConditionIsDeterministic ==
    (step_execution # None /\ steps[1].condition # None) =>
        GateResults(steps[1].condition[1], Exec.variables)
            = { StepsExecuted = << >> \/ StepsExecuted[1].status # "Skipped" }

====
